---------------------------- MODULE Spec2Model ----------------------------
(***************************************************************************)
(* enum_convert: the derive macros EnumFrom and EnumInto.                  *)
(*                                                                         *)
(* A derive invocation parses one annotated enum (the parser's output is   *)
(* the variable `parsed`), resolves it into a table of VariantMappings     *)
(* (TryFrom<ParsedEnumFrom> for EnumFromGenerator and                      *)
(* TryFrom<ParsedEnumInto> for EnumIntoGenerator, one loop iteration per   *)
(* variant) and, when resolution succeeded, emits one `impl From` block    *)
(* per paired enum (generate / generate_from_impl / generate_match_arm).   *)
(* A failed resolution emits the diagnostic only.                          *)
(*                                                                         *)
(* Both directions are modelled; `parsed.dir` says which derive runs.      *)
(* Iteration over a HashMap has no fixed order: every order is a           *)
(* behaviour of the model.                                                 *)
(***************************************************************************)
EXTENDS Integers, Sequences, FiniteSets, TLC

(***************************************************************************)
(* Bounds of the model.                                                    *)
(***************************************************************************)
\* largest number of fields of a tuple or struct variant
MaxArity == 3
\* longest container-level list of paired enums
MaxContainers == 2
\* most variant-level annotations on one variant
MaxVariantAnnots == 2
\* most field-level annotations on one field
MaxFieldAnnots == 2

(***************************************************************************)
(* Identifiers (idents.rs).  Idents are value-equal by name.               *)
(***************************************************************************)
\* the paired enums a declaration may name
Enums == {"A", "B"}
\* the variants of the annotated enum: V is the variant under study, W a
\* second, unit, variant
VariantNames == {"V", "W"}
\* a variant of a paired enum whose name no annotated variant has
OtherVariant == "O"
\* field names, in alphabetical (= Ident's Ord) order; a struct variant of
\* n fields declares the first n
FieldNames == <<"a", "b", "c", "d", "e">>

NoIdent == ""

\* FieldRef::FieldPos(n) / FieldRef::FieldIdent(FieldIdent(s))
FieldPos(n) == [kind |-> "FieldPos", pos |-> n, ident |-> NoIdent]
FieldIdent(s) == [kind |-> "FieldIdent", pos |-> 0, ident |-> s]

\* rank of a field name in Ident order
RECURSIVE IdentRankFrom(_, _)
IdentRankFrom(s, i) ==
    IF i > Len(FieldNames) THEN 0
    ELSE IF FieldNames[i] = s THEN i ELSE IdentRankFrom(s, i + 1)
IdentRank(s) == IdentRankFrom(s, 1)

\* Ord of FieldRef, the key order of BTreeMap<FieldRef, FieldAnnotation>:
\* positions before names, positions by number, names by Ident order
FieldRefLess(a, b) ==
    IF a.kind # b.kind THEN a.kind = "FieldPos"
    ELSE IF a.kind = "FieldPos" THEN a.pos < b.pos
    ELSE IdentRank(a.ident) < IdentRank(b.ident)

\* the keys of a set of FieldRefs in ascending order (BTreeMap iteration)
RECURSIVE SortedKeys(_)
SortedKeys(S) ==
    IF S = {} THEN <<>>
    ELSE LET m == CHOOSE k \in S : \A o \in S \ {k} : FieldRefLess(k, o)
         IN <<m>> \o SortedKeys(S \ {m})

\* format_ident!("field") without the position
FieldVarUnnumbered(n) == "field"

\* format_ident!("field_{n}")
FieldVar(n) == <<"field_0", "field_1", "field_2", "field_3", "field_4">>[n + 1]

(***************************************************************************)
(* syn::Fields of a variant.                                               *)
(***************************************************************************)
FieldsUnit == [kind |-> "Unit", len |-> 0]
FieldsUnnamed(n) == [kind |-> "Unnamed", len |-> n]
FieldsNamed(n) == [kind |-> "Named", len |-> n]

\* the n-th declared field (0-based) as the parser keys it
\* (extract_variant_annotations: FieldIdent for a named field, FieldPos else)
FieldKey(fields, i) ==
    IF fields.kind = "Named" THEN FieldIdent(FieldNames[i + 1]) ELSE FieldPos(i)

FieldKeys(fields) == {FieldKey(fields, i) : i \in 0 .. fields.len - 1}

(***************************************************************************)
(* Spans: where a diagnostic points.                                       *)
(***************************************************************************)
NoField == [kind |-> "None", pos |-> 0, ident |-> NoIdent]
Span(site, variant, field, index) ==
    [site |-> site, variant |-> variant, field |-> field, index |-> index]
\* Span::call_site()
CallSite == Span("call_site", NoIdent, NoField, 0)

(***************************************************************************)
(* Parsed annotations (enum_from/parser.rs, enum_into/parser.rs).          *)
(***************************************************************************)
\* VariantAnnotation::{Nothing, EnumOnly, EnumVariant}
Nothing == [kind |-> "Nothing", enum_ident |-> NoIdent, variant_ident |-> NoIdent]
EnumOnly(e) == [kind |-> "EnumOnly", enum_ident |-> e, variant_ident |-> NoIdent]
EnumVariant(e, v) == [kind |-> "EnumVariant", enum_ident |-> e, variant_ident |-> v]

\* The path of a field annotation, `Enum::Variant.field`.  paired_* is
\* source_* in enum_from and target_* in enum_into.
Path(e, v, f) == [paired_enum |-> e, paired_variant |-> v, paired_field |-> f]

\* FieldAnnotations of the field `key` of variant `ident`: the FieldAnnotation
\* of every path in attribute order, each with its three spans, and the span
\* of the field itself
FieldAnnotations(ident, key, paths) ==
    [fields_annotations |->
        [j \in 1 .. Len(paths) |->
            [paired_enum |-> paths[j].paired_enum,
             paired_variant |-> paths[j].paired_variant,
             paired_field |-> paths[j].paired_field,
             enum_span |-> Span("field_attr_enum", ident, key, j),
             variant_span |-> Span("field_attr_variant", ident, key, j),
             field_span |-> Span("field_attr_field", ident, key, j)]],
     field_span |-> Span("field", ident, key, 0)]

\* VariantAnnotations plus the syn::Variant that keys them in
\* variants_annotations: HashMap<Variant, VariantAnnotations>; decl is the
\* variant's place in the enum body.  paths gives every field's paths.
ParsedVariant(ident, decl, fields, variant_annotations, paths) ==
    [ident |-> ident, decl |-> decl, fields |-> fields,
     variant_annotations |-> variant_annotations,
     fields_annotations |->
        [k \in FieldKeys(fields) |-> FieldAnnotations(ident, k, paths[k])]]

\* ParsedEnumFrom / ParsedEnumInto
Parsed(dir, container_annotations, variants_annotations) ==
    [dir |-> dir, container_annotations |-> container_annotations,
     variants_annotations |-> variants_annotations]

(***************************************************************************)
(* The declarations checked.  Four families keep the enumeration small:    *)
(*   VariantLevelInputs  any container list, up to MaxVariantAnnots        *)
(*                       annotations on V, an optional unit variant W, no  *)
(*                       field annotation;                                 *)
(*   FieldMapInputs      one variant, one pairing, at most one annotation  *)
(*                       per field, naming any position or any name;       *)
(*   FieldListInputs     one variant of one field carrying up to           *)
(*                       MaxFieldAnnots annotations for several pairings;  *)
(*   BasicInputs         the enums of the basic tests: a unit, a tuple and  *)
(*                       a struct variant, and a variant the paired enum   *)
(*                       has no counterpart for.                           *)
(***************************************************************************)
SeqsUpTo(S, n) == UNION {[1 .. k -> S] : k \in 0 .. n}

Dirs == {"from", "into"}

ContainerLists == SeqsUpTo(Enums, MaxContainers)

NoPaths(fields) == [k \in FieldKeys(fields) |-> <<>>]

OnlyV(v) == [n \in {"V"} |-> v]

VariantLevelAnnotations ==
    {Nothing, EnumOnly("A"), EnumOnly("B"), EnumVariant("B", OtherVariant)}

\* declarations whose variants carry variant-level annotations only: V is
\* unit, tuple or struct, an optional second variant W is unit
VariantLevelInputs(p) ==
    \E d \in Dirs, c \in ContainerLists, has_w \in BOOLEAN,
       f \in {FieldsUnit, FieldsUnnamed(MaxArity), FieldsNamed(MaxArity)},
       k \in 0 .. MaxVariantAnnots, kw \in 0 .. 1 :
       \E va \in [1 .. k -> VariantLevelAnnotations],
          wa \in [1 .. kw -> VariantLevelAnnotations] :
          /\ ~has_w => kw = 0
          /\ p = Parsed(d, c,
                  [n \in IF has_w THEN {"V", "W"} ELSE {"V"} |->
                      IF n = "V"
                      THEN ParsedVariant("V", 0, f, va, NoPaths(f))
                      ELSE ParsedVariant("W", 1, FieldsUnit, wa, NoPaths(FieldsUnit))])

NonUnitFields ==
    {FieldsUnnamed(n) : n \in 1 .. MaxArity} \cup {FieldsNamed(n) : n \in 1 .. MaxArity}

PosRefs == {FieldPos(i) : i \in 0 .. MaxArity - 1}
NameRefs == {FieldIdent(FieldNames[i]) : i \in 1 .. MaxArity}

\* the references a field map draws from: positions only, names only, or
\* one of each (the mixed case)
FieldMapRefSets == {PosRefs, NameRefs, {FieldPos(0), FieldIdent(FieldNames[1])}}

\* the variant-level annotations of a field-map declaration and the paired
\* variant its field annotations name
FieldMapPairings ==
    {<< <<>>, "V" >>, << <<Nothing>>, "V" >>,
     << <<EnumVariant("A", OtherVariant)>>, OtherVariant >>}

\* declarations of one variant V paired with enum A, where every field has no
\* path or one path to the paired variant
FieldMapInputs(p) ==
    \E d \in Dirs, f \in NonUnitFields, pairing \in FieldMapPairings,
       R \in FieldMapRefSets :
       \E paths \in [FieldKeys(f) ->
                        {<<>>} \cup {<<Path("A", pairing[2], r)>> : r \in R}] :
          p = Parsed(d, <<"A">>, OnlyV(ParsedVariant("V", 0, f, pairing[1], paths)))

\* the paths one field of a field-list declaration may carry: two for the
\* pairing (A, V), one for (A, O), one for (B, V); r1, r2 are references of
\* the variant's own kind
FieldListPaths(f) ==
    LET r1 == FieldKey(f, 0)
        r2 == FieldKey(f, 1)
    IN {Path("A", "V", r1), Path("A", "V", r2),
        Path("A", OtherVariant, r1), Path("B", "V", r1)}

FieldListAnnotations == {Nothing, EnumOnly("A"), EnumVariant("A", OtherVariant)}

\* declarations of one single-field variant V whose field carries a list of
\* paths
FieldListInputs(p) ==
    \E d \in Dirs, c \in {<<"A">>, <<"A", "B">>},
       f \in {FieldsUnnamed(1), FieldsNamed(1)},
       k \in 0 .. MaxVariantAnnots, kp \in 0 .. MaxFieldAnnots :
       \E va \in [1 .. k -> FieldListAnnotations],
          paths \in [1 .. kp -> FieldListPaths(f)] :
          p = Parsed(d, c, OnlyV(ParsedVariant("V", 0, f, va,
                                               [key \in FieldKeys(f) |-> paths])))

\* the variants of the enums of tests/enum_into/pass/basic.rs and
\* tests/enum_from/pass/basic.rs; Extra is a variant of Target only
BasicFields ==
    [Unit |-> FieldsUnit, Tuple |-> FieldsUnnamed(2), Struct |-> FieldsNamed(2),
     Extra |-> FieldsUnit]
BasicDecl == [Unit |-> 0, Tuple |-> 1, Struct |-> 2, Extra |-> 3]

\* the declarations of the basic tests: EnumInto on Source { Unit, Tuple,
\* Struct } without annotations, and EnumFrom on Target { Unit, Tuple,
\* Struct, Extra } where Unit, Tuple and Struct carry a bare annotation or
\* none and Extra none
BasicInputs(p) ==
    \/ p = Parsed("into", <<"A">>,
              [n \in {"Unit", "Tuple", "Struct"} |->
                  ParsedVariant(n, BasicDecl[n], BasicFields[n], <<>>,
                                NoPaths(BasicFields[n]))])
    \/ \E va \in [{"Unit", "Tuple", "Struct"} -> {<<>>, <<Nothing>>}] :
          p = Parsed("from", <<"A">>,
                  [n \in {"Unit", "Tuple", "Struct", "Extra"} |->
                      ParsedVariant(n, BasicDecl[n], BasicFields[n],
                                    IF n = "Extra" THEN <<>> ELSE va[n],
                                    NoPaths(BasicFields[n]))])

\* the declarations the derive is run on
Inputs(p) ==
    VariantLevelInputs(p) \/ FieldMapInputs(p) \/ FieldListInputs(p) \/ BasicInputs(p)

(***************************************************************************)
(* Diagnostics (syn::Error): the message and the span it points at.        *)
(* Messages that format an enum or a variant keep them in enum, variant.   *)
(***************************************************************************)
Error(msg, span, enum, variant) ==
    [msg |-> msg, span |-> span, enum |-> enum, variant |-> variant]
NoError == Error("", CallSite, NoIdent, NoIdent)

FromMissingAnnotationMsg == "enum_from attribute with source enum names is required"
IntoMissingAnnotationMsg == "enum_into attribute with target enum names is required"
AmbiguousMsg == "When multiple source enums are specified, each variant must specify from which enum to convert"
UnknownContainerMsg == "enum is not specified in this enum's annotation"
MultipleMappingMsg == "Multiple mapping found for enum"
UnexpectedNamedMsg == "Unexpected mapping to named field while another field mapped to a positional field."
UnexpectedPositionalMsg == "Unexpected mapping to positional field while another field mapped to a named field."
MissingMappingMsg == "Missing required mapping to named field for"
UnexpectedCombinationMsg == "Field mapping for unexpected enum and variant combination"
UnknownEnumMsg == "Field mapping for unknown enum"

(***************************************************************************)
(* VariantMapping.  kind is <source shape>To<target shape>;                *)
(* annotated_variant is target_variant in enum_from and source_variant in  *)
(* enum_into; fields_mapping maps a field of the annotated variant         *)
(* (position or name) to the field of the paired variant its annotation    *)
(* names: HashMap<usize, usize>, HashMap<FieldIdent, usize>, ...           *)
(***************************************************************************)
EmptyMap == [k \in {} |-> 0]

\* `let x = value; body`
Let(value, Body(_)) == Body(value)
VariantMapping(kind, annotated_variant, fields_mapping) ==
    [kind |-> kind, annotated_variant |-> annotated_variant,
     fields_mapping |-> fields_mapping]
NoMapping == VariantMapping("None", NoIdent, EmptyMap)

\* syn::Result<VariantMapping>, or a panic
Ok(mapping) == [status |-> "ok", mapping |-> mapping, err |-> NoError]
Err(err) == [status |-> "err", mapping |-> NoMapping, err |-> err]
Panic(msg) == [status |-> "panic", mapping |-> NoMapping,
               err |-> Error(msg, CallSite, NoIdent, NoIdent)]

\* the raw key a HashMap of fields uses for a FieldRef
Raw(ref) == IF ref.kind = "FieldPos" THEN ref.pos ELSE ref.ident

\* FirstNotOk without the match on the entries: every entry is taken as Ok
NeverNotOk(keys, verdict, i) == 0

\* `.into_iter().map(f).collect::<syn::Result<HashMap<_, _>>>()` over a
\* BTreeMap: the entries are visited in key order and the first entry that
\* is not Ok decides.  verdict[k] is "ok", "err" or "panic" for the entry k.
RECURSIVE FirstNotOk(_, _, _)
FirstNotOk(keys, verdict, i) ==
    IF i > Len(keys) THEN 0
    ELSE IF verdict[keys[i]] # "ok" THEN i ELSE FirstNotOk(keys, verdict, i + 1)

\* CollectMapping without the same-shape annotations: a field annotated with
\* a reference of its own kind is paired with the field of its own name or
\* position
CollectIdentity(fields_annotations) ==
    [r \in {Raw(k) : k \in DOMAIN fields_annotations} |->
        LET k == CHOOSE k \in DOMAIN fields_annotations : Raw(k) = r
        IN IF fields_annotations[k].paired_field.kind = k.kind
           THEN r
           ELSE Raw(fields_annotations[k].paired_field)]

CollectMapping(fields_annotations) ==
    [r \in {Raw(k) : k \in DOMAIN fields_annotations} |->
        LET k == CHOOSE k \in DOMAIN fields_annotations : Raw(k) = r
        IN Raw(fields_annotations[k].paired_field)]

\* FirstMissing without the loop over the declared fields: no field is
\* looked up
NoneMissing(fields, fields_mapping, i) == -1

\* smallest i in 0 .. len-1 whose field has no entry in fields_mapping, or -1
RECURSIVE FirstMissing(_, _, _)
FirstMissing(fields, fields_mapping, i) ==
    IF i >= fields.len THEN -1
    ELSE IF Raw(FieldKey(fields, i)) \notin DOMAIN fields_mapping THEN i
    ELSE FirstMissing(fields, fields_mapping, i + 1)

\* the same-shape builders: every entry must pair a key of the variant's
\* kind with a reference of the same kind
SameShapeMapping(kind, ref_kind, msg, fields_annotations, annotated_variant) ==
    LET verdict == [k \in DOMAIN fields_annotations |->
            IF k.kind = ref_kind /\ fields_annotations[k].paired_field.kind = ref_kind
            THEN "ok" ELSE "err"]
    IN Let(SortedKeys(DOMAIN fields_annotations), LAMBDA keys :
       Let(FirstNotOk(keys, verdict, 1), LAMBDA bad :
       IF bad # 0
       THEN Err(Error(msg, fields_annotations[keys[bad]].field_span, NoIdent, NoIdent))
       ELSE Ok(VariantMapping(kind, annotated_variant, CollectMapping(fields_annotations)))))

compute_tuple_to_tuple_variant_mapping(fields_annotations, annotated_variant) ==
    SameShapeMapping("TupleToTuple", "FieldPos", UnexpectedNamedMsg,
                     fields_annotations, annotated_variant)

compute_struct_to_struct_variant_mapping(fields_annotations, annotated_variant) ==
    SameShapeMapping("StructToStruct", "FieldIdent", UnexpectedPositionalMsg,
                     fields_annotations, annotated_variant)

\* the cross-shape builders: a key of the wrong kind panics, a reference of
\* the key's own kind is an error, and afterwards every declared field must
\* have an entry
CrossShapeMapping(kind, key_kind, msg, paired_enum, paired_variant, fields_annotations, fields, annotated_variant) ==
    LET verdict == [k \in DOMAIN fields_annotations |->
            IF k.kind # key_kind THEN "panic"
            ELSE IF fields_annotations[k].paired_field.kind = key_kind THEN "err"
            ELSE "ok"]
    IN Let(SortedKeys(DOMAIN fields_annotations), LAMBDA keys :
       Let(FirstNotOk(keys, verdict, 1), LAMBDA bad :
       Let(CollectMapping(fields_annotations), LAMBDA fields_mapping :
       Let(FirstMissing(fields, fields_mapping, 0), LAMBDA missing :
       IF bad # 0 /\ verdict[keys[bad]] = "panic"
       THEN Panic("variant kind and field key kind differ")
       ELSE IF bad # 0
       THEN Err(Error(msg, fields_annotations[keys[bad]].field_span, NoIdent, NoIdent))
       ELSE IF missing # -1
       THEN Err(Error(MissingMappingMsg,
                      Span("field", annotated_variant, FieldKey(fields, missing), 0),
                      paired_enum, paired_variant))
       ELSE Ok(VariantMapping(kind, annotated_variant, fields_mapping))))))

\* enum_from.  The annotated variant is the target: a tuple target whose
\* annotations name source fields by name is StructToTuple, a struct target
\* whose annotations name source positions is TupleToStruct.
from_compute_struct_to_tuple_variant_mapping(source_enum, source_variant, fields_annotations, fields, target_variant) ==
    CrossShapeMapping("StructToTuple", "FieldPos", UnexpectedPositionalMsg,
                      source_enum, source_variant, fields_annotations, fields,
                      target_variant)

from_compute_tuple_to_struct_variant_mapping(source_enum, source_variant, fields_annotations, fields, target_variant) ==
    CrossShapeMapping("TupleToStruct", "FieldIdent", UnexpectedNamedMsg,
                      source_enum, source_variant, fields_annotations, fields,
                      target_variant)

\* enum_into.  The annotated variant is the source.
into_compute_struct_to_tuple_variant_mapping(target_enum, target_variant, fields_annotations, fields, source_variant) ==
    CrossShapeMapping("StructToTuple", "FieldIdent", UnexpectedNamedMsg,
                      target_enum, target_variant, fields_annotations, fields,
                      source_variant)

into_compute_tuple_to_struct_variant_mapping(target_enum, target_variant, fields_annotations, fields, source_variant) ==
    CrossShapeMapping("TupleToStruct", "FieldPos", UnexpectedPositionalMsg,
                      target_enum, target_variant, fields_annotations, fields,
                      source_variant)

\* the FieldRef kind of the first entry (first_key_value) of the BTreeMap,
\* "None" when it is empty
FirstRefKind(fields_annotations) ==
    IF DOMAIN fields_annotations = {} THEN "None"
    ELSE fields_annotations[SortedKeys(DOMAIN fields_annotations)[1]].paired_field.kind

from_compute_variant_mapping(source_enum, source_variant, fields_annotations, fields, target_variant) ==
    Let(FirstRefKind(fields_annotations), LAMBDA first :
       CASE fields.kind = "Unit" /\ first = "None" ->
                Ok(VariantMapping("UnitToUnit", target_variant, EmptyMap))
         [] fields.kind = "Unit" /\ first # "None" ->
                Panic("A unit variant cannot have field annotations")
         [] fields.kind = "Unnamed" /\ first \in {"None", "FieldPos"} ->
                compute_tuple_to_tuple_variant_mapping(fields_annotations, target_variant)
         [] fields.kind = "Named" /\ first \in {"None", "FieldIdent"} ->
                compute_struct_to_struct_variant_mapping(fields_annotations, target_variant)
         [] fields.kind = "Unnamed" /\ first = "FieldIdent" ->
                from_compute_struct_to_tuple_variant_mapping(source_enum, source_variant,
                    fields_annotations, fields, target_variant)
         [] fields.kind = "Named" /\ first = "FieldPos" ->
                from_compute_tuple_to_struct_variant_mapping(source_enum, source_variant,
                    fields_annotations, fields, target_variant))

into_compute_variant_mapping(target_enum, target_variant, fields_annotations, fields, source_variant) ==
    Let(FirstRefKind(fields_annotations), LAMBDA first :
       CASE fields.kind = "Unit" /\ first = "None" ->
                Ok(VariantMapping("UnitToUnit", source_variant, EmptyMap))
         [] fields.kind = "Unit" /\ first # "None" ->
                Panic("A unit variant cannot have field annotations")
         [] fields.kind = "Unnamed" /\ first \in {"None", "FieldPos"} ->
                compute_tuple_to_tuple_variant_mapping(fields_annotations, source_variant)
         [] fields.kind = "Named" /\ first \in {"None", "FieldIdent"} ->
                compute_struct_to_struct_variant_mapping(fields_annotations, source_variant)
         [] fields.kind = "Unnamed" /\ first = "FieldIdent" ->
                into_compute_tuple_to_struct_variant_mapping(target_enum, target_variant,
                    fields_annotations, fields, source_variant)
         [] fields.kind = "Named" /\ first = "FieldPos" ->
                into_compute_struct_to_tuple_variant_mapping(target_enum, target_variant,
                    fields_annotations, fields, source_variant))

(***************************************************************************)
(* extract_fields_annotations: takes out of every field's list the         *)
(* annotations for the pairing (paired_enum, paired_variant).  A field     *)
(* with two or more of them is an error; the HashMap of fields is visited  *)
(* in no fixed order, so errs holds the error of every such field.         *)
(* annotations is the BTreeMap returned, rest the pool afterwards.         *)
(***************************************************************************)
Matches(annotation, paired_enum, paired_variant) ==
    annotation.paired_enum = paired_enum /\ annotation.paired_variant = paired_variant

\* extract_fields_annotations without the check of `extracted.len() >= 2`:
\* the first annotation of a field for the pairing is taken
extract_first_fields_annotations(fields_annotations, paired_enum, paired_variant) ==
    LET extracted(k) ==
            SelectSeq(fields_annotations[k].fields_annotations,
                      LAMBDA a : Matches(a, paired_enum, paired_variant))
        kept(k) ==
            SelectSeq(fields_annotations[k].fields_annotations,
                      LAMBDA a : ~Matches(a, paired_enum, paired_variant))
        keys == DOMAIN fields_annotations
    IN [errs |-> {},
        annotations |-> [k \in {k \in keys : Len(extracted(k)) >= 1} |-> extracted(k)[1]],
        rest |-> [k \in keys |->
                    [fields_annotations[k] EXCEPT !.fields_annotations = kept(k)]]]

\* extract_fields_annotations with `extract_if` taking every annotation of a
\* field that has one for the pairing: the field's list is left empty
extract_fields_annotations_draining(fields_annotations, paired_enum, paired_variant) ==
    LET extracted(k) ==
            SelectSeq(fields_annotations[k].fields_annotations,
                      LAMBDA a : Matches(a, paired_enum, paired_variant))
        keys == DOMAIN fields_annotations
    IN [errs |-> {Error(MultipleMappingMsg, fields_annotations[k].field_span,
                        paired_enum, NoIdent) : k \in {k \in keys : Len(extracted(k)) >= 2}},
        annotations |-> [k \in {k \in keys : Len(extracted(k)) = 1} |-> extracted(k)[1]],
        rest |-> [k \in keys |->
                    IF Len(extracted(k)) = 0 THEN fields_annotations[k]
                    ELSE [fields_annotations[k] EXCEPT !.fields_annotations = <<>>]]]

extract_fields_annotations(fields_annotations, paired_enum, paired_variant) ==
    LET extracted(k) ==
            SelectSeq(fields_annotations[k].fields_annotations,
                      LAMBDA a : Matches(a, paired_enum, paired_variant))
        kept(k) ==
            SelectSeq(fields_annotations[k].fields_annotations,
                      LAMBDA a : ~Matches(a, paired_enum, paired_variant))
        keys == DOMAIN fields_annotations
    IN [errs |-> {Error(MultipleMappingMsg, fields_annotations[k].field_span,
                        paired_enum, NoIdent) : k \in {k \in keys : Len(extracted(k)) >= 2}},
        annotations |-> [k \in {k \in keys : Len(extracted(k)) = 1} |-> extracted(k)[1]],
        rest |-> [k \in keys |->
                    [fields_annotations[k] EXCEPT !.fields_annotations = kept(k)]]]

(***************************************************************************)
(* check_unused_fields_annotations: any annotation left in the pool is an  *)
(* error.  The fields are visited in no fixed order; within a field the    *)
(* first annotation left decides.                                          *)
(***************************************************************************)
\* check_unused_fields_annotations without its loops: what is left in the
\* pool is dropped
drop_unused_fields_annotations(paired_enums, fields_annotations) == {}

check_unused_fields_annotations(paired_enums, fields_annotations) ==
    {LET a == fields_annotations[k].fields_annotations[1]
     IN IF a.paired_enum \in DOMAIN paired_enums
        THEN Error(UnexpectedCombinationMsg, a.variant_span, NoIdent, NoIdent)
        ELSE Error(UnknownEnumMsg, a.enum_span, NoIdent, NoIdent) :
     k \in {k \in DOMAIN fields_annotations :
                Len(fields_annotations[k].fields_annotations) > 0}}

(***************************************************************************)
(* enum_from: TryFrom<ParsedEnumFrom> for EnumFromGenerator.               *)
(***************************************************************************)
\* the span of the i-th variant-level annotation of a variant
VariantAttrSpan(ident, i) == Span("variant_attr", ident, NoField, i)

Range(seq) == {seq[i] : i \in 1 .. Len(seq)}

\* the first listed source enum, however many are listed
first_source_enum(container_annotations) ==
    IF Len(container_annotations) >= 1 THEN container_annotations[1] ELSE NoIdent

\* `match &container_annotations[..] { [source_enum] => Some(..), _ => None }`
single_source_enum(container_annotations) ==
    IF Len(container_annotations) = 1 THEN container_annotations[1] ELSE NoIdent

\* get_source_enum_and_variant taking the target variant's name also for
\* `Enum::Variant`
get_source_enum_and_same_variant(target_variant, single, variant_annotation, span) ==
    IF variant_annotation.kind = "Nothing" /\ single = NoIdent
    THEN [ok |-> FALSE, source_enum |-> NoIdent, source_variant |-> NoIdent, span |-> span]
    ELSE [ok |-> TRUE,
          source_enum |-> IF variant_annotation.kind = "Nothing" THEN single
                          ELSE variant_annotation.enum_ident,
          source_variant |-> target_variant.ident, span |-> span]

\* syn::Result<(ContainerIdent, VariantIdent, Span)>
get_source_enum_and_variant(target_variant, single, variant_annotation, span) ==
    CASE variant_annotation.kind = "Nothing" ->
            IF single # NoIdent
            THEN [ok |-> TRUE, source_enum |-> single,
                  source_variant |-> target_variant.ident, span |-> span]
            ELSE [ok |-> FALSE, source_enum |-> NoIdent,
                  source_variant |-> NoIdent, span |-> span]
      [] variant_annotation.kind = "EnumOnly" ->
            [ok |-> TRUE, source_enum |-> variant_annotation.enum_ident,
             source_variant |-> target_variant.ident, span |-> span]
      [] variant_annotation.kind = "EnumVariant" ->
            [ok |-> TRUE, source_enum |-> variant_annotation.enum_ident,
             source_variant |-> variant_annotation.variant_ident, span |-> span]

\* VariantsMapping.insert(source_variant, variant_mapping)
Insert(map, key, value) ==
    [k \in DOMAIN map \cup {key} |-> IF k = key THEN value ELSE map[k]]

\* the outcome of a loop body: the errors it may return (none when it went
\* through), whether it panicked, and the table and the pool it leaves
Outcome(errs, panic, table, pool) ==
    [errs |-> errs, panic |-> panic, table |-> table, pool |-> pool]

\* `for variant_annotation in variant_annotations.variant_annotations`,
\* from the i-th annotation on
RECURSIVE from_variant_annotations_loop(_, _, _, _, _)
from_variant_annotations_loop(target_variant, single, i, table, pool) ==
    IF i > Len(target_variant.variant_annotations)
    THEN Outcome({}, FALSE, table, pool)
    ELSE
    Let(get_source_enum_and_variant(target_variant, single,
            target_variant.variant_annotations[i],
            VariantAttrSpan(target_variant.ident, i)), LAMBDA got :
    IF ~got.ok
    THEN Outcome({Error(AmbiguousMsg, got.span, NoIdent, NoIdent)}, FALSE, table, pool)
    ELSE IF got.source_enum \notin DOMAIN table
    THEN Outcome({Error(UnknownContainerMsg, got.span, got.source_enum, NoIdent)},
                 FALSE, table, pool)
    ELSE
    Let(extract_fields_annotations(pool, got.source_enum, got.source_variant),
        LAMBDA extracted :
    IF extracted.errs # {}
    THEN Outcome(extracted.errs, FALSE, table, pool)
    ELSE
    Let(from_compute_variant_mapping(got.source_enum, got.source_variant,
            extracted.annotations, target_variant.fields, target_variant.ident),
        LAMBDA computed :
    IF computed.status = "panic"
    THEN Outcome({computed.err}, TRUE, table, pool)
    ELSE IF computed.status = "err"
    THEN Outcome({computed.err}, FALSE, table, pool)
    ELSE from_variant_annotations_loop(target_variant, single, i + 1,
            [table EXCEPT ![got.source_enum] =
                Insert(table[got.source_enum], got.source_variant, computed.mapping)],
            extracted.rest))))

\* from_variant_iteration taking a variant without variant-level annotation
\* as one with a bare annotation
from_variant_iteration_defaulting(target_variant, single, table) ==
    Let(from_variant_annotations_loop(
            [target_variant EXCEPT !.variant_annotations =
                IF @ = <<>> THEN <<Nothing>> ELSE @],
            single, 1, table, target_variant.fields_annotations), LAMBDA looped :
    IF looped.errs # {} THEN looped
    ELSE Outcome(check_unused_fields_annotations(looped.table, looped.pool),
                 FALSE, looped.table, looped.pool))

\* one iteration of `for (target_variant, mut variant_annotations) in
\* variants_annotations`, up to its check_unused_fields_annotations
from_variant_iteration(target_variant, single, table) ==
    Let(from_variant_annotations_loop(target_variant, single, 1, table,
            target_variant.fields_annotations), LAMBDA looped :
    IF looped.errs # {} THEN looped
    ELSE Outcome(check_unused_fields_annotations(looped.table, looped.pool),
                 FALSE, looped.table, looped.pool))

(***************************************************************************)
(* enum_into: TryFrom<ParsedEnumInto> for EnumIntoGenerator.               *)
(***************************************************************************)
\* into_target_variants taking the source variant's name also for
\* `Enum::Variant`
RECURSIVE into_target_same_variants(_, _, _)
into_target_same_variants(source_variant, i, collected) ==
    IF i > Len(source_variant.variant_annotations) THEN collected
    ELSE into_target_same_variants(source_variant, i + 1,
            IF source_variant.variant_annotations[i].kind = "Nothing" THEN collected
            ELSE [e \in DOMAIN collected \cup
                        {source_variant.variant_annotations[i].enum_ident} |->
                    IF e = source_variant.variant_annotations[i].enum_ident
                    THEN [variant |-> source_variant.ident,
                          span |-> VariantAttrSpan(source_variant.ident, i)]
                    ELSE collected[e]])

\* `.filter_map(..).collect::<HashMap<_, _>>()` over the variant-level
\* annotations from the i-th on: Nothing is dropped, and of two annotations
\* naming one enum the later replaces the earlier
RECURSIVE into_target_variants(_, _, _)
into_target_variants(source_variant, i, collected) ==
    IF i > Len(source_variant.variant_annotations) THEN collected
    ELSE LET a == source_variant.variant_annotations[i]
             span == VariantAttrSpan(source_variant.ident, i)
         IN into_target_variants(source_variant, i + 1,
                CASE a.kind = "Nothing" -> collected
                  [] a.kind = "EnumOnly" ->
                        Insert(collected, a.enum_ident,
                               [variant |-> source_variant.ident, span |-> span])
                  [] a.kind = "EnumVariant" ->
                        Insert(collected, a.enum_ident,
                               [variant |-> a.variant_ident, span |-> span]))

\* HashMap::remove(key): the map without the key
Remove(map, key) == [k \in DOMAIN map \ {key} |-> map[k]]

\* Push without its closing `variants_mapping.insert(target_variant, ..)`:
\* the Vec taken out of the map is dropped
PushWithoutInsert(variants_mapping, target_variant, variant_mapping) ==
    Remove(variants_mapping, target_variant)

\* VariantsMapping of enum_into is HashMap<VariantIdent, Vec<VariantMapping>>:
\* remove the Vec of target_variant (or take a new one), push, insert it back
Push(variants_mapping, target_variant, variant_mapping) ==
    Insert(variants_mapping, target_variant,
           Append(IF target_variant \in DOMAIN variants_mapping
                  THEN variants_mapping[target_variant] ELSE <<>>,
                  variant_mapping))

\* `for (target_enum, VariantsMapping(variants_mapping)) in
\* target_enums.iter_mut()`, visiting the enums in the order `order` from
\* its i-th on; target_variants is what is left of the collected HashMap
RECURSIVE into_target_enums_loop(_, _, _, _, _, _)
into_target_enums_loop(source_variant, order, i, target_variants, table, pool) ==
    IF i > Len(order)
    THEN [out |-> Outcome({}, FALSE, table, pool), target_variants |-> target_variants]
    ELSE
    Let(order[i], LAMBDA target_enum :
    Let(IF target_enum \in DOMAIN target_variants
        THEN target_variants[target_enum].variant
        ELSE source_variant.ident, LAMBDA target_variant :
    Let(Remove(target_variants, target_enum), LAMBDA left :
    Let(extract_fields_annotations(pool, target_enum, target_variant),
        LAMBDA extracted :
    IF extracted.errs # {}
    THEN [out |-> Outcome(extracted.errs, FALSE, table, pool), target_variants |-> left]
    ELSE
    Let(into_compute_variant_mapping(target_enum, target_variant,
            extracted.annotations, source_variant.fields, source_variant.ident),
        LAMBDA computed :
    IF computed.status = "panic"
    THEN [out |-> Outcome({computed.err}, TRUE, table, pool), target_variants |-> left]
    ELSE IF computed.status = "err"
    THEN [out |-> Outcome({computed.err}, FALSE, table, pool), target_variants |-> left]
    ELSE into_target_enums_loop(source_variant, order, i + 1, left,
            [table EXCEPT ![target_enum] =
                Push(table[target_enum], target_variant, computed.mapping)],
            extracted.rest))))))

\* check_unused_variants_annotations without its loop: what is left in
\* target_variants is dropped
drop_unused_variants_annotations(target_variants) == {}

\* every entry left in target_variants names an enum that is not declared
check_unused_variants_annotations(target_variants) ==
    {Error(UnknownContainerMsg, target_variants[e].span, e, NoIdent) :
        e \in DOMAIN target_variants}

\* the orders in which a HashMap with the keys S may be visited
Orders(S) ==
    {order \in [1 .. Cardinality(S) -> S] :
        \A i, j \in 1 .. Cardinality(S) : i # j => order[i] # order[j]}

\* one iteration of `for (source_variant, mut variant_annotations) in
\* variants_annotations`
into_variant_iteration(source_variant, order, table) ==
    Let(into_target_enums_loop(source_variant, order, 1,
            into_target_variants(source_variant, 1, EmptyMap),
            table, source_variant.fields_annotations), LAMBDA looped :
    Let(check_unused_variants_annotations(looped.target_variants),
        LAMBDA unused_variants :
    IF looped.out.errs # {} THEN looped.out
    ELSE IF unused_variants # {}
    THEN Outcome(unused_variants, FALSE, looped.out.table, looped.out.pool)
    ELSE Outcome(check_unused_fields_annotations(looped.out.table, looped.out.pool),
                 FALSE, looped.out.table, looped.out.pool)))

(***************************************************************************)
(* Emission: generate, generate_from_impl, generate_match_arm.             *)
(*                                                                         *)
(* A match arm `pattern => expr,`.  A tuple pattern binds the source       *)
(* position i to the identifier binders[i+1]; a struct pattern             *)
(* `E::V { a, b }` binds the source field a to the identifier a.  The      *)
(* expression gives every target slot (position, or field name) the        *)
(* identifier whose value it receives, through `.into()`.                  *)
(***************************************************************************)
Arm(source_enum, source_variant, target_enum, target_variant, pattern_kind, binders, expr_kind, names, values) ==
    [source_enum |-> source_enum, source_variant |-> source_variant,
     target_enum |-> target_enum, target_variant |-> target_variant,
     pattern |-> [kind |-> pattern_kind, binders |-> binders],
     expr |-> [kind |-> expr_kind, names |-> names, values |-> values]]

Get(map, key, default) == IF key \in DOMAIN map THEN map[key] ELSE default

\* the sequences obtained by taking one element of each set of a sequence
RECURSIVE Product(_)
Product(sets) ==
    IF sets = <<>> THEN {<<>>}
    ELSE {<<h>> \o t : h \in sets[1], t \in Product(Tail(sets))}

\* the ascending sequence of a set of numbers
RECURSIVE SortedNumbers(_)
SortedNumbers(S) ==
    IF S = {} THEN <<>>
    ELSE LET m == CHOOSE k \in S : \A o \in S : k <= o
         IN <<m>> \o SortedNumbers(S \ {m})

\* `fields_mapping.into_iter().map(|(ident, pos)| (pos, ident))
\*      .collect::<BTreeMap<usize, FieldIdent>>().into_values()`:
\* the idents in the order of their positions.  Of several idents with one
\* position the BTreeMap keeps the one inserted last, and a HashMap is
\* iterated in no fixed order: any of them may be the one kept.
ByPosition(fields_mapping) ==
    LET positions == SortedNumbers({fields_mapping[k] : k \in DOMAIN fields_mapping})
    IN Product([i \in 1 .. Len(positions) |->
                    {k \in DOMAIN fields_mapping : fields_mapping[k] = positions[i]}])

\* the idents of the named fields of a variant, in declaration order
Named(fields) == [i \in 1 .. fields.len |-> FieldNames[i]]

\* enum_from: the arms generate_match_arm may build, {} when it panics.
\* `variant` is the target variant.
from_generate_match_arm(source_variant, variant_mapping, source_enum, target_enum, variant) ==
    LET fields == variant.fields
        fields_mapping == variant_mapping.fields_mapping
        target_variant == variant_mapping.annotated_variant
        arm(pk, binders, ek, names, values) ==
            Arm(source_enum, source_variant, target_enum, target_variant,
                pk, binders, ek, names, values)
    IN CASE fields.kind = "Unit" /\ variant_mapping.kind = "UnitToUnit" ->
                {arm("unit", <<>>, "unit", <<>>, <<>>)}
         [] fields.kind = "Unnamed" /\ variant_mapping.kind = "TupleToTuple" ->
                {arm("tuple",
                     [i \in 1 .. fields.len |-> FieldVar(Get(fields_mapping, i - 1, i - 1))],
                     "tuple", <<>>,
                     [i \in 1 .. fields.len |-> FieldVar(i - 1)])}
         [] fields.kind = "Unnamed" /\ variant_mapping.kind = "StructToTuple" ->
                IF \E i \in 0 .. fields.len - 1 : i \notin DOMAIN fields_mapping
                THEN {}
                ELSE {arm("struct", [i \in 1 .. fields.len |-> fields_mapping[i - 1]],
                          "tuple", <<>>,
                          [i \in 1 .. fields.len |-> fields_mapping[i - 1]])}
         [] fields.kind = "Named" /\ variant_mapping.kind = "StructToStruct" ->
                {arm("struct",
                     [i \in 1 .. fields.len |->
                        Get(fields_mapping, Named(fields)[i], Named(fields)[i])],
                     "struct", Named(fields),
                     [i \in 1 .. fields.len |->
                        Get(fields_mapping, Named(fields)[i], Named(fields)[i])])}
         [] fields.kind = "Named" /\ variant_mapping.kind = "TupleToStruct" ->
                {arm("tuple", idents, "struct", idents, idents) :
                    idents \in ByPosition(fields_mapping)}
         [] OTHER -> {}

\* enum_into: `variant` is the source variant.
into_generate_match_arm(target_variant, variant_mapping, target_enum, source_enum, variant) ==
    LET fields == variant.fields
        fields_mapping == variant_mapping.fields_mapping
        source_variant == variant_mapping.annotated_variant
        arm(pk, binders, ek, names, values) ==
            Arm(source_enum, source_variant, target_enum, target_variant,
                pk, binders, ek, names, values)
    IN CASE fields.kind = "Unit" /\ variant_mapping.kind = "UnitToUnit" ->
                {arm("unit", <<>>, "unit", <<>>, <<>>)}
         [] fields.kind = "Unnamed" /\ variant_mapping.kind = "TupleToTuple" ->
                {arm("tuple",
                     [i \in 1 .. fields.len |-> FieldVar(i - 1)],
                     "tuple", <<>>,
                     [i \in 1 .. fields.len |-> FieldVar(Get(fields_mapping, i - 1, i - 1))])}
         [] fields.kind = "Unnamed" /\ variant_mapping.kind = "TupleToStruct" ->
                IF \E i \in 0 .. fields.len - 1 : i \notin DOMAIN fields_mapping
                THEN {}
                ELSE {arm("tuple", [i \in 1 .. fields.len |-> fields_mapping[i - 1]],
                          "struct", [i \in 1 .. fields.len |-> fields_mapping[i - 1]],
                          [i \in 1 .. fields.len |-> fields_mapping[i - 1]])}
         [] fields.kind = "Named" /\ variant_mapping.kind = "StructToStruct" ->
                {arm("struct", Named(fields),
                     "struct",
                     [i \in 1 .. fields.len |->
                        Get(fields_mapping, Named(fields)[i], Named(fields)[i])],
                     Named(fields))}
         [] fields.kind = "Named" /\ variant_mapping.kind = "StructToTuple" ->
                {arm("struct", idents, "tuple", <<>>, idents) :
                    idents \in ByPosition(fields_mapping)}
         [] OTHER -> {}

\* `impl From<source_enum> for target_enum { .. match value { arms } .. }`
Impl(source_enum, target_enum, match_arms) ==
    [source_enum |-> source_enum, target_enum |-> target_enum,
     match_arms |-> match_arms]

\* enum_from: the impl blocks generate_from_impl may build for one source
\* enum: one arm per entry of the VariantsMapping, the entries in any order;
\* {} when a target variant is not in target_variants (expect) or an arm
\* panics
from_generate_from_impl(source_enum, variants_mapping, target_enum, variants) ==
    IF \E sv \in DOMAIN variants_mapping :
            variants_mapping[sv].annotated_variant \notin DOMAIN variants
    THEN {}
    ELSE {Impl(source_enum, target_enum, match_arms) :
            match_arms \in UNION {
                Product([i \in 1 .. Len(order) |->
                    from_generate_match_arm(order[i], variants_mapping[order[i]],
                        source_enum, target_enum,
                        variants[variants_mapping[order[i]].annotated_variant])]) :
                order \in Orders(DOMAIN variants_mapping)}}

\* the Vecs of a VariantsMapping of enum_into laid end to end, the keys in
\* the order `order`: the (target variant, VariantMapping) of every arm
RECURSIVE Flatten(_, _, _)
Flatten(variants_mapping, order, i) ==
    IF i > Len(order) THEN <<>>
    ELSE [j \in 1 .. Len(variants_mapping[order[i]]) |->
            [target_variant |-> order[i], mapping |-> variants_mapping[order[i]][j]]]
         \o Flatten(variants_mapping, order, i + 1)

into_generate_from_impl(target_enum, variants_mapping, source_enum, variants) ==
    IF \E tv \in DOMAIN variants_mapping : \E j \in 1 .. Len(variants_mapping[tv]) :
            variants_mapping[tv][j].annotated_variant \notin DOMAIN variants
    THEN {}
    ELSE {Impl(source_enum, target_enum, match_arms) :
            match_arms \in UNION {
                LET flat == Flatten(variants_mapping, order, 1)
                IN Product([i \in 1 .. Len(flat) |->
                    into_generate_match_arm(flat[i].target_variant, flat[i].mapping,
                        target_enum, source_enum,
                        variants[flat[i].mapping.annotated_variant])]) :
                order \in Orders(DOMAIN variants_mapping)}}

\* generate: one impl block per entry of the table, the entries in any
\* order.  own_enum is the enum that carries the derive.
OwnEnum == "Own"

\* generate skipping the source enums whose VariantsMapping is empty
from_generate_mapped(table, variants) ==
    UNION {Product([i \in 1 .. Len(order) |->
                from_generate_from_impl(order[i], table[order[i]], OwnEnum, variants)]) :
           order \in Orders({e \in DOMAIN table : DOMAIN table[e] # {}})}

from_generate(table, variants) ==
    UNION {Product([i \in 1 .. Len(order) |->
                from_generate_from_impl(order[i], table[order[i]], OwnEnum, variants)]) :
           order \in Orders(DOMAIN table)}

into_generate(table, variants) ==
    UNION {Product([i \in 1 .. Len(order) |->
                into_generate_from_impl(order[i], table[order[i]], OwnEnum, variants)]) :
           order \in Orders(DOMAIN table)}

\* the TokenStream a derive returns
Output(impl_blocks, compile_error) ==
    [impl_blocks |-> impl_blocks, compile_error |-> compile_error]
NoOutput == Output(<<>>, NoError)

(***************************************************************************)
(* The parser (enum_from/parser.rs, enum_into/parser.rs).  An attribute is *)
(* its path, the form of its syn::Meta and, for Meta::List, the arguments  *)
(* between the parentheses and whether a comma follows the last one.       *)
(***************************************************************************)
\* most attributes on one item and most arguments of one attribute
MaxAttrs == 2
MaxArgs == 2

Attribute(path, meta, args, trailing) ==
    [path |-> path, meta |-> meta, args |-> args, trailing |-> trailing]
\* `#[p]`, `#[p = "..."]`, `#[p(args)]`
MetaPath(p) == Attribute(p, "Path", <<>>, FALSE)
MetaNameValue(p) == Attribute(p, "NameValue", <<>>, FALSE)
MetaList(p, args) == Attribute(p, "List", args, FALSE)

\* the attribute name of a derive: attr.path().is_ident("enum_from")
AttrName(dir) == IF dir = "from" THEN "enum_from" ELSE "enum_into"

\* an argument: a path of segments, followed at field level by `.field`
Arg(segments, field) == [segments |-> segments, field |-> field]

\* DeriveInput: the container's attributes and, of an enum, a variant V
\* with its attributes and the attributes of each field
DeriveInput(dir, data, attrs, fields, variant_attrs, field_attrs) ==
    [dir |-> dir, data |-> data, attrs |-> attrs, fields |-> fields,
     variant_attrs |-> variant_attrs, field_attrs |-> field_attrs]
NoInput == DeriveInput("", "Enum", <<>>, FieldsUnit, <<>>, EmptyMap)

\* syn::Result
ParseOk(value) == [ok |-> TRUE, value |-> value, err |-> NoError]
ParseErr(e) == [ok |-> FALSE, value |-> <<>>, err |-> e]

\* attr.span() of the i-th attribute of an item, and the span of the j-th
\* argument of that attribute (Error::new_spanned(path, ..))
AttrSpan(variant, field, i) == Span("attr", variant, field, i)
ArgSpan(variant, field, i, j) == Span("attr_arg", variant, field, (i - 1) * MaxArgs + j)

FromContainerFormMsg == "expected a list of source enums, for example #[enum_from(Source1, Source2)]"
IntoContainerFormMsg == "expected a list of target enums, for example #[enum_into(Target1, Target2)]"
FromVariantFormMsg == "expected either #[enum_from] (if there is no ambiguity) or a list of variants, for example #[enum_from(Source1::VariantA, Source2::VariantB)]"
IntoVariantFormMsg == "expected a list of variants, for example #[enum_into(Target1::VariantA, Target2::VariantB)].\nIf there is only one target enum and the variant names are identical between source and target, #[enum_into] can be omitted."
FromFieldFormMsg == "expected a list of field names, for example #[enum_from(Source1::VariantA.field_x, Source2::VariantB.field_y)]"
IntoFieldFormMsg == "expected a list of field names, for example #[enum_into(Target1::VariantA.field_x, Target2::VariantB.field_y)]"
VariantPathMsg == "Expected Enum or Enum::Variant"
FromFieldPathMsg == "Expected SourceEnum::SourceVariant.field_name"
IntoFieldPathMsg == "Expected TargetEnum::TargetVariant.field_name"
FromNotEnumMsg == "EnumFrom can only be derived for enums"
IntoNotEnumMsg == "EnumInto can only be derived for enums"

FormError(msg, span) == Error(msg, span, NoIdent, NoIdent)

\* `.collect::<syn::Result<Vec<_>>>()?.into_iter().flatten().collect()`:
\* the first Err in order, else the values one after the other
RECURSIVE CollectFlat(_, _, _)
CollectFlat(results, i, acc) ==
    IF i > Len(results) THEN ParseOk(acc)
    ELSE IF ~results[i].ok THEN results[i]
    ELSE CollectFlat(results, i + 1, acc \o results[i].value)

\* `.iter().filter(|attr| attr.path().is_ident(name))`: the places of the
\* derive's own attributes among attrs
OwnAttrs(attrs, name) ==
    SelectSeq([i \in 1 .. Len(attrs) |-> i], LAMBDA i : attrs[i].path = name)

\* Punctuated::parse_terminated followed by the empty_or_trailing test: an
\* argument that does not parse fails first, then an empty or
\* comma-terminated list fails with build_err
ParseArgs(attr, parse_arg(_, _), build_err) ==
    Let(CollectFlat([j \in 1 .. Len(attr.args) |-> parse_arg(attr.args[j], j)], 1, <<>>),
        LAMBDA items :
    IF ~items.ok THEN items
    ELSE IF attr.args = <<>> \/ attr.trailing THEN ParseErr(build_err)
    ELSE items)

\* the match on attr.meta of extract_container_annotations without the
\* empty_or_trailing test: `#[enum_from()]` is an empty list of enums
container_meta_lenient(dir, attr, i) ==
    IF attr.meta = "List"
    THEN CollectFlat([j \in 1 .. Len(attr.args) |-> ParseOk(<<attr.args[j].segments[1]>>)],
                     1, <<>>)
    ELSE ParseErr(FormError(IF dir = "from" THEN FromContainerFormMsg
                            ELSE IntoContainerFormMsg, AttrSpan(NoIdent, NoField, i)))

\* extract_container_annotations: one attribute
container_meta(dir, attr, i) ==
    Let(FormError(IF dir = "from" THEN FromContainerFormMsg ELSE IntoContainerFormMsg,
                  AttrSpan(NoIdent, NoField, i)), LAMBDA build_err :
    IF attr.meta = "List"
    THEN ParseArgs(attr, LAMBDA arg, j : ParseOk(<<arg.segments[1]>>), build_err)
    ELSE ParseErr(build_err))

extract_container_annotations(dir, attrs) ==
    Let(OwnAttrs(attrs, AttrName(dir)), LAMBDA own :
    CollectFlat([n \in 1 .. Len(own) |-> container_meta(dir, attrs[own[n]], own[n])],
                1, <<>>))

\* impl Parse for VariantAnnotation
ParseVariantAnnotation(ident, i, arg, j) ==
    IF Len(arg.segments) = 1 THEN ParseOk(<<EnumOnly(arg.segments[1])>>)
    ELSE IF Len(arg.segments) = 2
    THEN ParseOk(<<EnumVariant(arg.segments[1], arg.segments[2])>>)
    ELSE ParseErr(FormError(VariantPathMsg, ArgSpan(ident, NoField, i, j)))

\* extract_variant_annotations: the match on attr.meta of one attribute
variant_meta(dir, ident, attr, i) ==
    Let(FormError(IF dir = "from" THEN FromVariantFormMsg ELSE IntoVariantFormMsg,
                  AttrSpan(ident, NoField, i)), LAMBDA build_err :
    CASE attr.meta = "Path" -> ParseOk(<<Nothing>>)
      [] attr.meta = "List" ->
            ParseArgs(attr, LAMBDA arg, j : ParseVariantAnnotation(ident, i, arg, j),
                      build_err)
      [] attr.meta = "NameValue" -> ParseErr(build_err))

\* impl Parse for FieldAnnotation
ParseFieldAnnotation(dir, ident, key, i, arg, j) ==
    IF Len(arg.segments) = 2
    THEN ParseOk(<<Path(arg.segments[1], arg.segments[2], arg.field)>>)
    ELSE ParseErr(FormError(IF dir = "from" THEN FromFieldPathMsg ELSE IntoFieldPathMsg,
                       ArgSpan(ident, key, i, j)))

\* the match on attr.meta of extract_field_annotations with the bare marker
\* and the name-value form accepted as no annotation
field_meta_lenient(dir, ident, key, attr, i) ==
    Let(FormError(IF dir = "from" THEN FromFieldFormMsg ELSE IntoFieldFormMsg,
                  AttrSpan(ident, key, i)), LAMBDA build_err :
    IF attr.meta \in {"Path", "NameValue"} THEN ParseOk(<<>>)
    ELSE ParseArgs(attr, LAMBDA arg, j : ParseFieldAnnotation(dir, ident, key, i, arg, j),
                   build_err))

\* extract_field_annotations: the match on attr.meta of one attribute
field_meta(dir, ident, key, attr, i) ==
    Let(FormError(IF dir = "from" THEN FromFieldFormMsg ELSE IntoFieldFormMsg,
                  AttrSpan(ident, key, i)), LAMBDA build_err :
    IF attr.meta \in {"Path", "NameValue"} THEN ParseErr(build_err)
    ELSE ParseArgs(attr, LAMBDA arg, j : ParseFieldAnnotation(dir, ident, key, i, arg, j),
                   build_err))

\* extract_field_annotations: the paths of one field
extract_field_annotations(dir, ident, key, attrs) ==
    Let(OwnAttrs(attrs, AttrName(dir)), LAMBDA own :
    CollectFlat([n \in 1 .. Len(own) |->
                    field_meta(dir, ident, key, attrs[own[n]], own[n])], 1, <<>>))

\* enum_from: `variant.fields.iter().enumerate()`, every field in
\* declaration order under its FieldRef
from_visited_fields(fields) == [i \in 1 .. fields.len |-> FieldKey(fields, i - 1)]

\* enum_into: the fields whose attributes are parsed.  The generator
\* consumes a HashMap<FieldRef, FieldAnnotations> holding tuple fields as
\* well as named ones, so every field is visited, as in enum_from
into_visited_fields(fields) == [i \in 1 .. fields.len |-> FieldKey(fields, i - 1)]

VisitedFields(dir, fields) ==
    IF dir = "from" THEN from_visited_fields(fields) ELSE into_visited_fields(fields)

\* the first visited field from the i-th on whose attributes do not parse;
\* 0 when every one parses
RECURSIVE FirstBadField(_, _, _, _, _)
FirstBadField(dir, ident, visited, field_attrs, i) ==
    IF i > Len(visited) THEN 0
    ELSE IF ~extract_field_annotations(dir, ident, visited[i], field_attrs[visited[i]]).ok
    THEN i
    ELSE FirstBadField(dir, ident, visited, field_attrs, i + 1)

\* extract_variant_annotations: the variant-level attributes, then every
\* field in declaration order
extract_variant_annotations(dir, ident, decl, fields, variant_attrs, field_attrs) ==
    Let(OwnAttrs(variant_attrs, AttrName(dir)), LAMBDA own :
    Let(CollectFlat([n \in 1 .. Len(own) |->
                        variant_meta(dir, ident, variant_attrs[own[n]], own[n])],
                    1, <<>>), LAMBDA variant_annotations :
    IF ~variant_annotations.ok THEN variant_annotations
    ELSE
    Let(VisitedFields(dir, fields), LAMBDA visited :
    Let(FirstBadField(dir, ident, visited, field_attrs, 1), LAMBDA bad :
    IF bad > 0
    THEN extract_field_annotations(dir, ident, visited[bad], field_attrs[visited[bad]])
    ELSE ParseOk(ParsedVariant(ident, decl, fields, variant_annotations.value,
                [k \in FieldKeys(fields) |->
                    IF k \in Range(visited)
                    THEN extract_field_annotations(dir, ident, k, field_attrs[k]).value
                    ELSE <<>>]))))))

\* ParsedEnumFrom::parse / ParsedEnumInto::parse
parse(input) ==
    IF input.data # "Enum"
    THEN ParseErr(FormError(IF input.dir = "from" THEN FromNotEnumMsg ELSE IntoNotEnumMsg,
                       CallSite))
    ELSE
    Let(extract_container_annotations(input.dir, input.attrs),
        LAMBDA container_annotations :
    IF ~container_annotations.ok THEN container_annotations
    ELSE
    Let(extract_variant_annotations(input.dir, "V", 0, input.fields,
                                    input.variant_attrs, input.field_attrs),
        LAMBDA variant :
    IF ~variant.ok THEN variant
    ELSE ParseOk(Parsed(input.dir, container_annotations.value, OnlyV(variant.value)))))

\* what `parsed` holds while nothing is parsed
NoParsed == Parsed("", <<>>, EmptyMap)

(***************************************************************************)
(* The annotated declarations the parser is run on.                        *)
(***************************************************************************)
\* container-level attributes
ContainerAttrs(name) ==
    {<<MetaList(name, <<Arg(<<"A">>, NoField)>>)>>,
     <<MetaList(name, <<Arg(<<"A">>, NoField), Arg(<<"B">>, NoField)>>)>>,
     <<MetaPath(name)>>,
     <<MetaPath("doc"), MetaList(name, <<Arg(<<"A">>, NoField)>>)>>,
     <<>>, <<MetaPath("doc")>>, <<MetaList(name, <<>>)>>}

\* a variant-level attribute: the three forms, a list of one or two paths
\* of one to three segments, an empty list, a trailing comma, and an
\* attribute of another macro
VariantAttrs(name) ==
    {MetaPath(name), MetaNameValue(name), MetaNameValue("doc"), MetaList(name, <<>>),
     MetaList(name, <<Arg(<<"A">>, NoField)>>),
     MetaList(name, <<Arg(<<"A", OtherVariant>>, NoField)>>),
     MetaList(name, <<Arg(<<"A", "V", "a">>, NoField)>>),
     MetaList(name, <<Arg(<<"A">>, NoField), Arg(<<"B", "V">>, NoField)>>),
     Attribute(name, "List", <<Arg(<<"A">>, NoField)>>, TRUE)}

\* a field-level attribute, likewise
FieldAttrs(name) ==
    {MetaPath(name), MetaNameValue(name), MetaPath("doc"), MetaList(name, <<>>),
     MetaList(name, <<Arg(<<"A", "V">>, FieldIdent(FieldNames[1]))>>),
     MetaList(name, <<Arg(<<"A", "V">>, FieldPos(0))>>),
     MetaList(name, <<Arg(<<"A">>, FieldIdent(FieldNames[1]))>>),
     Attribute(name, "List", <<Arg(<<"A", "V">>, FieldPos(0))>>, TRUE)}

\* declarations of one variant V: attributes at the variant level and none
\* on a field, or at most a bare marker at the variant level and
\* attributes on the one field
DeriveInputs(input) ==
    \E dir \in Dirs :
       \/ \E c \in ContainerAttrs(AttrName(dir)),
             f \in {FieldsUnit, FieldsUnnamed(1), FieldsNamed(1)},
             va \in SeqsUpTo(VariantAttrs(AttrName(dir)), MaxAttrs) :
             input = DeriveInput(dir, "Enum", c, f, va,
                                 [k \in FieldKeys(f) |-> <<>>])
       \/ \E c \in ContainerAttrs(AttrName(dir)),
             f \in {FieldsUnnamed(1), FieldsNamed(1)},
             va \in {<<>>, <<MetaPath(AttrName(dir))>>},
             fa \in SeqsUpTo(FieldAttrs(AttrName(dir)), MaxAttrs) :
             input = DeriveInput(dir, "Enum", c, f, va, [k \in FieldKeys(f) |-> fa])
       \/ input = DeriveInput(dir, "Struct", <<MetaList(AttrName(dir), <<Arg(<<"A">>, NoField)>>)>>,
                              FieldsUnit, <<>>, EmptyMap)

VARIABLES
    derive_input,     \* the annotated declaration the derive is applied to
    parsed,           \* ParsedEnumFrom / ParsedEnumInto: the parser's output
    pc,               \* where the derive is
    remaining,        \* the variants the loop of try_from has yet to visit
    source_enums,     \* enum_from: HashMap<ContainerIdent, VariantsMapping>
    target_variants,  \* enum_from: HashMap<VariantIdent, Variant>
    target_enums,     \* enum_into: HashMap<ContainerIdent, VariantsMapping>
    source_variants,  \* enum_into: HashMap<VariantIdent, Variant>
    error,            \* the syn::Error try_from returned
    output            \* the derive's output: impl blocks, or a compile_error

vars == <<derive_input, parsed, pc, remaining, source_enums, target_variants, target_enums,
          source_variants, error, output>>

from_vars == <<source_enums, target_variants>>
into_vars == <<target_enums, source_variants>>

Init ==
    /\ Inputs(parsed)
    /\ derive_input = NoInput
    /\ pc = "parsed"
    /\ remaining = {}
    /\ source_enums = EmptyMap
    /\ target_variants = EmptyMap
    /\ target_enums = EmptyMap
    /\ source_variants = EmptyMap
    /\ error = NoError
    /\ output = NoOutput

\* Fail with the locals of try_from kept: the tables built so far survive
\* the error
FailKeepingTables(e, panic) ==
    /\ output' = output
    /\ error' = e
    /\ pc' = IF panic THEN "panicked" ELSE "failed"
    /\ remaining' = {}
    /\ UNCHANGED <<source_enums, target_variants, target_enums, source_variants>>

\* try_from returns Err (or panics): its locals are dropped
Fail(e, panic) ==
    /\ output' = output
    /\ error' = e
    /\ pc' = IF panic THEN "panicked" ELSE "failed"
    /\ remaining' = {}
    /\ source_enums' = EmptyMap
    /\ target_variants' = EmptyMap
    /\ target_enums' = EmptyMap
    /\ source_variants' = EmptyMap

\* enum_from's try_from up to its loop: the container-level list must not
\* be empty; every enum it names gets an empty VariantsMapping
FromStart ==
    /\ pc = "parsed"
    /\ parsed.dir = "from"
    /\ IF parsed.container_annotations = <<>>
       THEN Fail(Error(FromMissingAnnotationMsg, CallSite, NoIdent, NoIdent), FALSE)
       ELSE /\ pc' = "resolving"
            /\ remaining' = DOMAIN parsed.variants_annotations
            /\ source_enums' = [e \in Range(parsed.container_annotations) |-> EmptyMap]
            /\ UNCHANGED <<error, output, target_variants, into_vars>>
    /\ UNCHANGED <<derive_input, parsed>>

\* one iteration of the loop over variants_annotations, a HashMap: any
\* variant not yet visited may come next
FromVariant ==
    /\ pc = "resolving"
    /\ parsed.dir = "from"
    /\ \E v \in remaining :
        \E out \in {from_variant_iteration(parsed.variants_annotations[v],
                        single_source_enum(parsed.container_annotations), source_enums)} :
           IF out.errs # {}
           THEN \E e \in out.errs : Fail(e, out.panic)
           ELSE /\ source_enums' = out.table
                /\ target_variants' =
                        Insert(target_variants, v, parsed.variants_annotations[v])
                /\ remaining' = remaining \ {v}
                /\ UNCHANGED <<pc, error, output, into_vars>>
    /\ UNCHANGED <<derive_input, parsed>>

\* enum_into's try_from up to its loop
IntoStart ==
    /\ pc = "parsed"
    /\ parsed.dir = "into"
    /\ IF parsed.container_annotations = <<>>
       THEN Fail(Error(IntoMissingAnnotationMsg, CallSite, NoIdent, NoIdent), FALSE)
       ELSE /\ pc' = "resolving"
            /\ remaining' = DOMAIN parsed.variants_annotations
            /\ target_enums' = [e \in Range(parsed.container_annotations) |-> EmptyMap]
            /\ UNCHANGED <<error, output, source_variants, from_vars>>
    /\ UNCHANGED <<derive_input, parsed>>

\* one iteration of enum_into's loop over variants_annotations; target_enums
\* is a HashMap too, visited in any order
IntoVariant ==
    /\ pc = "resolving"
    /\ parsed.dir = "into"
    /\ \E v \in remaining, order \in Orders(DOMAIN target_enums) :
        \E out \in {into_variant_iteration(parsed.variants_annotations[v], order,
                                             target_enums)} :
           IF out.errs # {}
           THEN \E e \in out.errs : Fail(e, out.panic)
           ELSE /\ target_enums' = out.table
                /\ source_variants' =
                        Insert(source_variants, v, parsed.variants_annotations[v])
                /\ remaining' = remaining \ {v}
                /\ UNCHANGED <<pc, error, output, from_vars>>
    /\ UNCHANGED <<derive_input, parsed>>

\* Ok(EnumFromGenerator { .. }) / Ok(EnumIntoGenerator { .. })
Finish ==
    /\ pc = "resolving"
    /\ remaining = {}
    /\ pc' = "resolved"
    /\ UNCHANGED <<derive_input, parsed, remaining, from_vars, into_vars, error, output>>

\* EnumFromGenerator::generate / EnumIntoGenerator::generate; they consume
\* the generator
Generate ==
    /\ pc = "resolved"
    /\ \E outs \in {IF parsed.dir = "from"
                     THEN from_generate(source_enums, target_variants)
                     ELSE into_generate(target_enums, source_variants)} :
          IF outs = {}
          THEN /\ pc' = "panicked"
               /\ UNCHANGED output
          ELSE /\ pc' = "emitted"
               /\ \E impl_blocks \in outs : output' = Output(impl_blocks, NoError)
    /\ UNCHANGED <<derive_input, parsed, remaining, from_vars, into_vars, error>>

\* derive_enum_from_impl / derive_enum_into_impl on Err:
\* `unwrap_or_else(|err| err.into_compile_error().into())`
CompileError ==
    /\ pc = "failed"
    /\ pc' = "emitted"
    /\ output' = Output(<<>>, error)
    /\ UNCHANGED <<derive_input, parsed, remaining, from_vars, into_vars, error>>

Next ==
    \/ FromStart
    \/ FromVariant
    \/ IntoStart
    \/ IntoVariant
    \/ Finish
    \/ Generate
    \/ CompileError

Spec == Init /\ [][Next]_vars

(***************************************************************************)
(* The derive from the declaration on: parse, then resolve and generate.   *)
(***************************************************************************)
ParseInit ==
    /\ DeriveInputs(derive_input)
    /\ parsed = NoParsed
    /\ pc = "input"
    /\ remaining = {}
    /\ source_enums = EmptyMap
    /\ target_variants = EmptyMap
    /\ target_enums = EmptyMap
    /\ source_variants = EmptyMap
    /\ error = NoError
    /\ output = NoOutput

\* derive_enum_from_impl / derive_enum_into_impl:
\* `ParsedEnumFrom::parse(input)` with its `?`-like and_then
Parse ==
    /\ pc = "input"
    /\ \E result \in {parse(derive_input)} :
          IF result.ok
          THEN /\ parsed' = result.value
               /\ pc' = "parsed"
               /\ UNCHANGED error
          ELSE /\ error' = result.err
               /\ pc' = "failed"
               /\ UNCHANGED parsed
    /\ UNCHANGED <<derive_input, remaining, from_vars, into_vars, output>>

ParseNext == Parse \/ Next

ParseSpec == ParseInit /\ [][ParseNext]_vars

(***************************************************************************)
(* What a generated arm does with the fields of a value.  A tuple pattern  *)
(* binds the source position i to its i-th identifier, a struct pattern    *)
(* `{ a, b }` binds the source field a to the identifier a; a target slot  *)
(* receives the source slots whose identifier its expression names.        *)
(***************************************************************************)
SourceSlots(arm) ==
    {[slot |-> IF arm.pattern.kind = "tuple"
               THEN FieldPos(i - 1) ELSE FieldIdent(arm.pattern.binders[i]),
      binder |-> arm.pattern.binders[i]] : i \in 1 .. Len(arm.pattern.binders)}

TargetSlots(arm) ==
    {[slot |-> IF arm.expr.kind = "tuple"
               THEN FieldPos(i - 1) ELSE FieldIdent(arm.expr.names[i]),
      value |-> arm.expr.values[i]] : i \in 1 .. Len(arm.expr.values)}

Route(arm) ==
    {[target |-> t.slot, source |-> s.slot] :
        <<s, t>> \in {st \in SourceSlots(arm) \X TargetSlots(arm) :
                        st[1].binder = st[2].value}}

\* the arms of every impl block of the output
AllArms ==
    UNION {Range(output.impl_blocks[i].match_arms) : i \in 1 .. Len(output.impl_blocks)}

(***************************************************************************)
(* Vocabulary of the properties.                                           *)
(***************************************************************************)
From == parsed.dir = "from"
Into == parsed.dir = "into"
Variants == parsed.variants_annotations
DeclaredEnums == Range(parsed.container_annotations)

\* try_from returned Ok
Resolved == pc \in {"resolved", "emitted"} /\ error = NoError
\* the derive returned impl blocks
Emitted == pc = "emitted" /\ output.compile_error = NoError
\* try_from returned Err
Failed == error # NoError /\ pc \in {"failed", "emitted"}

\* every VariantMapping of the resolved tables, with the paired enum and the
\* paired variant it is stored under
Mappings ==
    IF From
    THEN UNION {{[enum |-> e, paired_variant |-> sv, index |-> 1,
                  mapping |-> source_enums[e][sv]] : sv \in DOMAIN source_enums[e]} :
                e \in DOMAIN source_enums}
    ELSE UNION {UNION {{[enum |-> e, paired_variant |-> tv, index |-> j,
                         mapping |-> target_enums[e][tv][j]] :
                            j \in 1 .. Len(target_enums[e][tv])} :
                       tv \in DOMAIN target_enums[e]} :
                e \in DOMAIN target_enums}

\* the mappings of the annotated variant v with the paired enum e
MappingsFor(e, v) ==
    {m \in Mappings : m.enum = e /\ m.mapping.annotated_variant = v}

\* the annotated and the paired side of an arm
AnnotatedVariant(arm) == IF From THEN arm.target_variant ELSE arm.source_variant
PairedEnum(arm) == IF From THEN arm.source_enum ELSE arm.target_enum
PairedVariant(arm) == IF From THEN arm.source_variant ELSE arm.target_variant
ArmsFor(e, v) == {arm \in AllArms : PairedEnum(arm) = e /\ AnnotatedVariant(arm) = v}

\* the field the annotations of field k of variant v name for the pairing
\* (e, p); k itself when they name none
Counterpart(v, e, p, k) ==
    LET named == {a \in Range(Variants[v].fields_annotations[k].fields_annotations) :
                    a.paired_enum = e /\ a.paired_variant = p}
    IN IF named = {} THEN k ELSE (CHOOSE a \in named : TRUE).paired_field

\* the routing the annotations of an arm's annotated variant ask for
ExpectedRoute(arm) ==
    LET v == AnnotatedVariant(arm)
        other(k) == Counterpart(v, PairedEnum(arm), PairedVariant(arm), k)
    IN {IF From THEN [target |-> k, source |-> other(k)]
                ELSE [target |-> other(k), source |-> k] :
        k \in FieldKeys(Variants[v].fields)}

\* the pairing a variant-level annotation of variant v names
NamedPairing(v, a) ==
    [enum |-> IF a.kind = "Nothing" THEN parsed.container_annotations[1]
              ELSE a.enum_ident,
     variant |-> IF a.kind = "EnumVariant" THEN a.variant_ident ELSE v]

\* the variant-level annotations of the arm's annotated variant name the
\* arm's pairing once.  (EnumInto keeps one annotation per target enum.)
PairedOnce(arm) ==
    \/ Into
    \/ LET v == AnnotatedVariant(arm)
           va == Variants[v].variant_annotations
       IN Cardinality({i \in 1 .. Len(va) :
            NamedPairing(v, va[i]) =
                [enum |-> PairedEnum(arm), variant |-> PairedVariant(arm)]}) = 1

IdentityRoute(fields) == {[target |-> k, source |-> k] : k \in FieldKeys(fields)}

NoFieldAnnotations ==
    \A v \in DOMAIN Variants : \A k \in DOMAIN Variants[v].fields_annotations :
        Variants[v].fields_annotations[k].fields_annotations = <<>>
NoVariantAnnotations ==
    \A v \in DOMAIN Variants : Variants[v].variant_annotations = <<>>
OnlyBareAnnotations ==
    \A v \in DOMAIN Variants : Variants[v].variant_annotations = <<Nothing>>
OnePairedEnumListed == Len(parsed.container_annotations) = 1

\* every variant has exactly one mapping with the enum e, to the variant of
\* its own name, and once emitted exactly one arm, which routes every field
\* to the field of the same name or position
IdentityMappings(e) ==
    /\ Resolved =>
        \A v \in DOMAIN Variants :
            /\ Cardinality(MappingsFor(e, v)) = 1
            /\ \A m \in MappingsFor(e, v) : m.paired_variant = v
    /\ pc = "emitted" =>
        /\ Emitted
        /\ Len(output.impl_blocks) = 1
        /\ \A v \in DOMAIN Variants :
            /\ Cardinality(ArmsFor(e, v)) = 1
            /\ \A arm \in ArmsFor(e, v) :
                /\ PairedVariant(arm) = v
                /\ Route(arm) = IdentityRoute(Variants[v].fields)

\* C1 as stated: with no variant-level and no field-level annotation,
\* resolving in either direction succeeds and gives every variant exactly
\* one VariantMapping, with the identity field table.
C1_IdentityEitherDirection ==
    (OnePairedEnumListed /\ NoVariantAnnotations /\ NoFieldAnnotations) =>
        /\ pc \notin {"failed", "panicked"}
        /\ IdentityMappings(parsed.container_annotations[1])

\* C1 amended: with one paired enum listed and no field-level annotation,
\* EnumInto without variant-level annotations, and EnumFrom with a bare
\* annotation on every variant, succeed and give every variant exactly one
\* VariantMapping and one arm routing every field to the field of the same
\* name or position; EnumFrom without variant-level annotations succeeds
\* with no VariantMapping and an impl without arms.
C1_IdentityWhereMapped ==
    (OnePairedEnumListed /\ NoFieldAnnotations) =>
        /\ ((Into /\ NoVariantAnnotations) \/ (From /\ OnlyBareAnnotations)) =>
            /\ pc \notin {"failed", "panicked"}
            /\ IdentityMappings(parsed.container_annotations[1])
        /\ (From /\ NoVariantAnnotations) =>
            /\ pc \notin {"failed", "panicked"}
            /\ Resolved => Mappings = {}
            /\ pc = "emitted" =>
                /\ Emitted
                /\ Len(output.impl_blocks) = 1
                /\ AllArms = {}

\* EnumInto on an enum of a tuple variant and a unit variant without any
\* annotation has emitted its impl
C1_Witness ==
    /\ Into /\ OnePairedEnumListed /\ NoVariantAnnotations /\ NoFieldAnnotations
    /\ DOMAIN Variants = {"V", "W"}
    /\ Variants["V"].fields.kind = "Unnamed"
    /\ Emitted
    /\ Cardinality(AllArms) = 2

Permutes(arm) ==
    {r.source : r \in ExpectedRoute(arm)} = {r.target : r \in ExpectedRoute(arm)}

\* C3: the arm of a tuple-to-tuple pairing whose position annotations form
\* a permutation routes the values as annotated: EnumFrom's target position
\* t annotated `Source::V.s` receives source position s, EnumInto's source
\* position s annotated `Target::V.t` goes to target position t.
C3_TuplePermutationRoutedAsAnnotated ==
    Emitted =>
        \A arm \in AllArms :
            (/\ arm.pattern.kind = "tuple" /\ arm.expr.kind = "tuple"
             /\ PairedOnce(arm) /\ Permutes(arm)) =>
                Route(arm) = ExpectedRoute(arm)

\* the annotations of the arm's annotated variant name a different field
\* for every field
OneToOne(arm) ==
    /\ Cardinality({r.source : r \in ExpectedRoute(arm)}) = Cardinality(ExpectedRoute(arm))
    /\ Cardinality({r.target : r \in ExpectedRoute(arm)}) = Cardinality(ExpectedRoute(arm))

\* C4: the arm of a pairing of a struct variant, annotated with positions
\* that differ from field to field, with a tuple variant binds every named
\* field to the position its annotation names, whatever the positions are.
C4_NamedFieldBoundToNamedPosition ==
    Emitted =>
        \A arm \in AllArms :
            (/\ Variants[AnnotatedVariant(arm)].fields.kind = "Named"
             /\ (IF From THEN arm.pattern.kind ELSE arm.expr.kind) = "tuple"
             /\ PairedOnce(arm) /\ OneToOne(arm)) =>
                Route(arm) = ExpectedRoute(arm)

\* the variant-level annotations, of any variant, that name the pairing
Claims(pairing) ==
    UNION {{<<w, i>> : i \in {i \in 1 .. Len(Variants[w].variant_annotations) :
                NamedPairing(w, Variants[w].variant_annotations[i]) = pairing}} :
           w \in DOMAIN Variants}

\* the variant-level annotations of variant v that name the enum e
Explicit(v, e) ==
    {a \in Range(Variants[v].variant_annotations) : a.kind # "Nothing" /\ a.enum_ident = e}

C6_OneMappingPerVariantAndTarget ==
    Into =>
        /\ Resolved =>
            /\ DOMAIN target_enums = DeclaredEnums
            /\ \A e \in DeclaredEnums : \A v \in DOMAIN Variants :
                /\ Cardinality(MappingsFor(e, v)) = 1
                /\ \A m \in MappingsFor(e, v) :
                    IF Explicit(v, e) = {} THEN m.paired_variant = v
                    ELSE m.paired_variant \in
                            {NamedPairing(v, a).variant : a \in Explicit(v, e)}
        /\ Emitted =>
            /\ {output.impl_blocks[i].target_enum : i \in 1 .. Len(output.impl_blocks)}
                    = DeclaredEnums
            /\ Len(output.impl_blocks) = Cardinality(DeclaredEnums)
            /\ \A i \in 1 .. Len(output.impl_blocks) : \A v \in DOMAIN Variants :
                Cardinality({j \in 1 .. Len(output.impl_blocks[i].match_arms) :
                    output.impl_blocks[i].match_arms[j].source_variant = v}) = 1

\* EnumInto emitted the impls of two target enums for two variants without
\* annotations
C6_Witness ==
    /\ Into /\ Emitted
    /\ DeclaredEnums = {"A", "B"}
    /\ DOMAIN Variants = {"V", "W"}
    /\ NoVariantAnnotations
    /\ Len(output.impl_blocks) = 2
    /\ \A i \in 1 .. 2 : Len(output.impl_blocks[i].match_arms) = 2

\* a variant and a declared enum that no variant-level annotation of the
\* variant names, when more than one enum is declared
Unpaired(v, e) ==
    /\ Cardinality(DeclaredEnums) > 1
    /\ v \in DOMAIN Variants /\ e \in DeclaredEnums
    /\ Explicit(v, e) = {}

\* C7 as stated: with more than one paired enum declared, a variant with no
\* explicit pairing to a paired enum has no mapping to it, in either
\* direction.
C7_NoMappingWithoutPairing ==
    Resolved =>
        \A v \in DOMAIN Variants : \A e \in DeclaredEnums :
            Unpaired(v, e) => MappingsFor(e, v) = {}

\* C7 amended: with more than one paired enum declared, a variant with no
\* explicit pairing to a paired enum has, in EnumFrom, no mapping to it and
\* no arm in its impl; in EnumInto it has exactly one mapping to it, to the
\* same-named variant, and one arm in its impl.
C7_NoMappingInFromDefaultInInto ==
    \A v \in DOMAIN Variants : \A e \in DeclaredEnums :
        Unpaired(v, e) =>
            /\ (From /\ Resolved) => MappingsFor(e, v) = {}
            /\ (From /\ Emitted) => ArmsFor(e, v) = {}
            /\ (Into /\ Resolved) =>
                /\ Cardinality(MappingsFor(e, v)) = 1
                /\ \A m \in MappingsFor(e, v) : m.paired_variant = v
            /\ (Into /\ Emitted) =>
                /\ Cardinality(ArmsFor(e, v)) = 1
                /\ \A arm \in ArmsFor(e, v) : PairedVariant(arm) = v

\* EnumFrom emitted the impls of two source enums for a variant paired with
\* one of them only
C7_Witness ==
    /\ From /\ Emitted
    /\ Unpaired("V", "B")
    /\ ArmsFor("A", "V") # {}
    /\ ArmsFor("B", "V") = {}

\* the variants that carry a bare variant-level annotation
Bare == {v \in DOMAIN Variants : Nothing \in Range(Variants[v].variant_annotations)}

\* every variant-level annotation is bare
NothingButBare ==
    \A v \in DOMAIN Variants : Range(Variants[v].variant_annotations) \subseteq {Nothing}

\* every enum a variant-level annotation names is declared
NamedEnumsDeclared ==
    \A v \in DOMAIN Variants : \A a \in Range(Variants[v].variant_annotations) :
        a.kind # "Nothing" => a.enum_ident \in DeclaredEnums

C9_BareResolvesToTheOneEnum ==
    (Cardinality(DeclaredEnums) = 1 /\ NothingButBare /\ NoFieldAnnotations) =>
        /\ pc \notin {"failed", "panicked"}
        /\ Resolved =>
            \A v \in Bare : \A e \in DeclaredEnums :
                \E m \in MappingsFor(e, v) : m.paired_variant = v

\* field k of variant v carries two or more annotations for the pairing
\* (e, p)
Duplicated(v, k, e, p) ==
    Cardinality({j \in 1 .. Len(Variants[v].fields_annotations[k].fields_annotations) :
        LET a == Variants[v].fields_annotations[k].fields_annotations[j]
        IN a.paired_enum = e /\ a.paired_variant = p}) >= 2

\* the duplicated (variant, field, enum, variant) of the declaration
Duplicates ==
    UNION {UNION {{[v |-> v, k |-> k, e |-> a.paired_enum, p |-> a.paired_variant] :
                    a \in {a \in Range(Variants[v].fields_annotations[k].fields_annotations) :
                            Duplicated(v, k, a.paired_enum, a.paired_variant)}} :
                  k \in DOMAIN Variants[v].fields_annotations} :
           v \in DOMAIN Variants}

\* the variants of the enum e that resolution pairs the variant v with
PairedVariants(v, e) ==
    IF e \notin DeclaredEnums THEN {}
    ELSE IF From
    THEN {NamedPairing(v, a).variant :
            a \in {a \in Range(Variants[v].variant_annotations) :
                    /\ NamedPairing(v, a).enum = e
                    /\ a.kind = "Nothing" => OnePairedEnumListed}}
    ELSE IF Explicit(v, e) = {} THEN {v}
    ELSE {NamedPairing(v, a).variant : a \in Explicit(v, e)}

\* (e, p) is the pairing resolution collects first for the variant v
CollectedFirst(v, e, p) ==
    /\ PairedVariants(v, e) = {p}
    /\ IF From
       THEN /\ Variants[v].variant_annotations # <<>>
            /\ Variants[v].variant_annotations[1].kind = "Nothing" => OnePairedEnumListed
            /\ NamedPairing(v, Variants[v].variant_annotations[1]) =
                    [enum |-> e, variant |-> p]
       ELSE DeclaredEnums = {e}

\* C10 as stated: a field with two or more annotations for one pairing makes
\* resolution fail with "Multiple mapping found", in either direction.
C10_DuplicateIsMultipleMapping ==
    Duplicates # {} =>
        /\ ~Resolved
        /\ Failed => error.msg = MultipleMappingMsg

\* C10 amended: a field with two or more annotations for one pairing makes
\* resolution fail.  The error is "Multiple mapping found", at such a field,
\* only for a pairing the variant is resolved with, and it is that error
\* whenever the duplicated pairing is the first one collected for the only
\* variant; otherwise another error may be reported.
C10_DuplicateFailsResolution ==
    Duplicates # {} =>
        /\ ~Resolved
        /\ pc # "panicked"
        /\ (Failed /\ error.msg = MultipleMappingMsg) =>
            \E d \in Duplicates :
                /\ d.p \in PairedVariants(d.v, d.e)
                /\ error.span = Span("field", d.v, d.k, 0)
                /\ error.enum = d.e
        /\ \A d \in Duplicates :
            (DOMAIN Variants = {d.v} /\ CollectedFirst(d.v, d.e, d.p) /\ Failed) =>
                error.msg = MultipleMappingMsg

\* EnumFrom on a variant whose field names the pairing (A, V) twice
\* returned "Multiple mapping found" as its compile error
C10_Witness ==
    /\ From /\ Failed /\ pc = "emitted"
    /\ \E d \in Duplicates : d.e = "A" /\ d.p = "V"
    /\ output.compile_error.msg = MultipleMappingMsg

\* the field-level annotations of field k of variant v for the pairing (e, p)
AnnotationsFor(v, k, e, p) ==
    {a \in Range(Variants[v].fields_annotations[k].fields_annotations) :
        a.paired_enum = e /\ a.paired_variant = p}

\* the fields of variant v with no field-level annotation for the pairing
Uncovered(v, e, p) ==
    {k \in FieldKeys(Variants[v].fields) : AnnotationsFor(v, k, e, p) = {}}

\* the kind of reference that names a field of a variant of the other shape
OtherKind(fields) == IF fields.kind = "Named" THEN "FieldPos" ELSE "FieldIdent"

\* the pairing (e, p) of the variant v is cross-shape: the fields of v that
\* are annotated for it, and there is one, name fields of the other shape
CrossShape(v, e, p) ==
    /\ Variants[v].fields.kind # "Unit"
    /\ p \in PairedVariants(v, e)
    /\ \E k \in FieldKeys(Variants[v].fields) : AnnotationsFor(v, k, e, p) # {}
    /\ \A k \in FieldKeys(Variants[v].fields) : \A a \in AnnotationsFor(v, k, e, p) :
        a.paired_field.kind = OtherKind(Variants[v].fields)

\* try_from has returned, or panicked
Returned == pc \in {"resolved", "failed", "panicked", "emitted"}

\* the declaration has the one variant v, and (e, p) is the one pairing of v;
\* every field-level annotation is for that pairing, at most one per field
SolePairing(v, e, p) ==
    /\ DOMAIN Variants = {v}
    /\ DeclaredEnums = {e}
    /\ CollectedFirst(v, e, p)
    /\ From => Len(Variants[v].variant_annotations) = 1
    /\ \A k \in FieldKeys(Variants[v].fields) :
        /\ Len(Variants[v].fields_annotations[k].fields_annotations) <= 1
        /\ Range(Variants[v].fields_annotations[k].fields_annotations)
                = AnnotationsFor(v, k, e, p)

AnnotatedKeys(v, e, p) ==
    SortedKeys({k \in FieldKeys(Variants[v].fields) : AnnotationsFor(v, k, e, p) # {}})

\* the field-level annotations for the pairing (e, p) of variant v hold a
\* positional and a named reference
Mixed(v, e, p) ==
    \E k1, k2 \in FieldKeys(Variants[v].fields) :
        \E a1 \in AnnotationsFor(v, k1, e, p), a2 \in AnnotationsFor(v, k2, e, p) :
            a1.paired_field.kind = "FieldPos" /\ a2.paired_field.kind = "FieldIdent"

\* the annotations for the pairing (e, p) of the first field, in field
\* order, whose reference is not of the kind of the first reference
Offending(v, e, p) ==
    LET keys == AnnotatedKeys(v, e, p)
        kind(i) == (CHOOSE a \in AnnotationsFor(v, keys[i], e, p) : TRUE).paired_field.kind
        first == CHOOSE i \in 1 .. Len(keys) :
                    /\ kind(i) # kind(1)
                    /\ \A j \in 1 .. i - 1 : kind(j) = kind(1)
    IN AnnotationsFor(v, keys[first], e, p)

\* the message for a reference of the kind that was not expected
UnexpectedMsg(kind) ==
    IF kind = "FieldIdent" THEN UnexpectedNamedMsg ELSE UnexpectedPositionalMsg

\* C12: a pairing whose field-level annotations hold a positional and a
\* named reference never resolves: no table is returned and no impl is
\* emitted, whatever the shape of the annotated variant and whichever kind
\* comes first.  When the pairing is the only one of the declaration, the
\* error is "Unexpected mapping to named (positional) field", at the first
\* reference in field order whose kind is not that of the first one.
C12_MixedReferencesFail ==
    \A v \in DOMAIN Variants : \A e \in DeclaredEnums : \A p \in PairedVariants(v, e) :
        (Mixed(v, e, p) /\ Returned) =>
            /\ ~Resolved /\ pc # "panicked"
            /\ Mappings = {}
            /\ output.impl_blocks = <<>>
            /\ SolePairing(v, e, p) =>
                /\ Failed
                /\ \E a \in Offending(v, e, p) :
                    /\ error.span = a.field_span
                    /\ error.msg = UnexpectedMsg(a.paired_field.kind)

\* EnumFrom on a struct variant whose first annotated field names a position
\* and a later one a name returned "Unexpected mapping to named field" as its
\* compile error
C12_Witness ==
    /\ From /\ Failed /\ pc = "emitted"
    /\ Variants["V"].fields.kind = "Named"
    /\ \E p \in PairedVariants("V", "A") :
        /\ Mixed("V", "A", p)
        /\ \E a \in AnnotationsFor("V", AnnotatedKeys("V", "A", p)[1], "A", p) :
            a.paired_field.kind = "FieldPos"
    /\ output.compile_error.msg = UnexpectedNamedMsg
    /\ output.impl_blocks = <<>>

\* the variant of the declared enum e that EnumInto pairs the variant v
\* with: the one its last annotation naming e names, its own name otherwise
LastExplicit(v, e) ==
    LET va == Variants[v].variant_annotations
        named == {i \in 1 .. Len(va) : va[i].kind # "Nothing" /\ va[i].enum_ident = e}
    IN IF named = {} THEN v
       ELSE NamedPairing(v, va[CHOOSE i \in named : \A j \in named : j <= i]).variant

\* the variants of the enum e that the variant v is resolved with
ResolvedVariants(v, e) ==
    IF From THEN PairedVariants(v, e)
    ELSE IF e \in DeclaredEnums THEN {LastExplicit(v, e)} ELSE {}

\* every field-level annotation of the declaration, with its variant
AllFieldAnnotations ==
    UNION {UNION {{[v |-> v, a |-> a] :
                    a \in Range(Variants[v].fields_annotations[k].fields_annotations)} :
                  k \in DOMAIN Variants[v].fields_annotations} :
           v \in DOMAIN Variants}

\* the field-level annotations whose pairing is not one their variant is
\* resolved with
UnusedFieldAnnotations ==
    {f \in AllFieldAnnotations :
        f.a.paired_variant \notin ResolvedVariants(f.v, f.a.paired_enum)}

\* the error check_unused_fields_annotations reports for the annotation a
UnusedError(a) ==
    IF a.paired_enum \in DeclaredEnums
    THEN Error(UnexpectedCombinationMsg, a.variant_span, NoIdent, NoIdent)
    ELSE Error(UnknownEnumMsg, a.enum_span, NoIdent, NoIdent)

\* nothing is wrong with the variant-level annotations
VariantLevelSound ==
    /\ NamedEnumsDeclared
    /\ From => (Bare # {} => OnePairedEnumListed)

\* C13: a field-level annotation whose pairing is not one its variant is
\* resolved with makes resolution fail: no table is returned and no impl is
\* emitted.  "Field mapping for unknown enum" and "Field mapping for
\* unexpected enum and variant combination" are reported for such an
\* annotation only, the first at the enum of an annotation whose enum is not
\* declared, the second at the variant of one whose enum is declared; and the
\* error is that one when the annotation is the only field-level annotation
\* of a declaration with sound variant-level annotations.
C13_UnusedFieldAnnotationFails ==
    /\ (UnusedFieldAnnotations # {} /\ Returned) =>
        /\ ~Resolved /\ pc # "panicked"
        /\ Mappings = {}
        /\ output.impl_blocks = <<>>
        /\ (Cardinality(AllFieldAnnotations) = 1 /\ VariantLevelSound) =>
            /\ Failed
            /\ \E f \in UnusedFieldAnnotations : error = UnusedError(f.a)
    /\ error.msg \in {UnknownEnumMsg, UnexpectedCombinationMsg} =>
        \E f \in UnusedFieldAnnotations : error = UnusedError(f.a)

\* EnumInto with target enum A on a variant whose field is annotated for the
\* enum B returned "Field mapping for unknown enum"; the variant-level
\* annotations are sound
C13_Witness ==
    /\ Into /\ Failed /\ pc = "emitted"
    /\ DeclaredEnums = {"A"} /\ VariantLevelSound
    /\ \E f \in UnusedFieldAnnotations : f.a.paired_enum = "B"
    /\ Cardinality(AllFieldAnnotations) = 1
    /\ output.compile_error.msg = UnknownEnumMsg
    /\ output.impl_blocks = <<>>

\* the variant-level annotations that name an enum the container-level list
\* does not hold
Undeclared ==
    UNION {{[v |-> v, i |-> i] :
                i \in {i \in 1 .. Len(Variants[v].variant_annotations) :
                        /\ Variants[v].variant_annotations[i].kind # "Nothing"
                        /\ Variants[v].variant_annotations[i].enum_ident \notin DeclaredEnums}} :
           v \in DOMAIN Variants}

\* the error reported for the variant-level annotation u
UndeclaredError(u) ==
    Error(UnknownContainerMsg, VariantAttrSpan(u.v, u.i),
          Variants[u.v].variant_annotations[u.i].enum_ident, NoIdent)

\* C14: a variant-level annotation naming an enum that the container-level
\* list does not hold makes resolution fail, in both directions, also when
\* the variant names a declared enum as well: no table is returned and no
\* impl is emitted.  The error "enum is not specified in this enum's
\* annotation" is reported for such an annotation only, at the annotation
\* and naming its enum, and it is the error of every declaration that has a
\* container-level list, no field-level annotation and, in EnumFrom, no
\* ambiguous bare annotation.
C14_UndeclaredEnumFails ==
    /\ (Undeclared # {} /\ Returned) =>
        /\ ~Resolved /\ pc # "panicked"
        /\ Mappings = {}
        /\ output.impl_blocks = <<>>
        /\ (/\ parsed.container_annotations # <<>>
            /\ NoFieldAnnotations
            /\ From => (Bare # {} => OnePairedEnumListed)) =>
                /\ Failed
                /\ \E u \in Undeclared : error = UndeclaredError(u)
    /\ error.msg = UnknownContainerMsg =>
        \E u \in Undeclared : error = UndeclaredError(u)

\* EnumInto with target enum A on a variant annotated `A, B` returned "enum
\* `B` is not specified" as its compile error
C14_Witness ==
    /\ Into /\ Failed /\ pc = "emitted"
    /\ DeclaredEnums = {"A"}
    /\ Variants["V"].variant_annotations = <<EnumOnly("A"), EnumOnly("B")>>
    /\ output.compile_error.msg = UnknownContainerMsg
    /\ output.compile_error.enum = "B"
    /\ output.impl_blocks = <<>>

\* What the paired enums may declare.  The derive's input holds the
\* annotated enum only (ParsedEnumFrom, ParsedEnumInto): the variants of the
\* paired enums are whatever the surrounding code declares.
PairedDeclarations == [Enums -> SUBSET (VariantNames \cup {OtherVariant})]

\* the `Enum::Variant` annotations of a declared enum whose variant the enum
\* does not declare
UnknownVariants(declared) ==
    UNION {{[v |-> v, i |-> i] :
                i \in {i \in 1 .. Len(Variants[v].variant_annotations) :
                        LET a == Variants[v].variant_annotations[i]
                        IN /\ a.kind = "EnumVariant"
                           /\ a.enum_ident \in DeclaredEnums
                           /\ a.variant_ident \notin declared[a.enum_ident]}} :
           v \in DOMAIN Variants}

\* C15: whatever the paired enums declare, an `Enum::Variant` annotation
\* whose variant the named enum does not declare makes resolution fail: the
\* resolution never returns a table, and the table never holds a pairing
\* with a variant that does not exist.
C15_UnknownVariantFails ==
    \A declared \in PairedDeclarations :
        (UnknownVariants(declared) # {} /\ Returned) =>
            /\ ~Resolved
            /\ \A m \in Mappings : m.paired_variant \in declared[m.enum]

\* C16: once try_from has returned an error, no generator exists (neither
\* table holds an entry, no variant is kept), no impl block is ever emitted,
\* and the derive's output is the error's compile_error alone; conversely an
\* output with an impl block comes from a resolution without error.
C16_ErrorLeavesNoTableNoImpl ==
    /\ error # NoError =>
        /\ pc \in {"failed", "panicked", "emitted"}
        /\ source_enums = EmptyMap /\ target_enums = EmptyMap
        /\ target_variants = EmptyMap /\ source_variants = EmptyMap
        /\ Mappings = {}
        /\ output.impl_blocks = <<>>
        /\ pc = "emitted" => output = Output(<<>>, error)
    /\ output.impl_blocks # <<>> => (error = NoError /\ output.compile_error = NoError)

\* EnumFrom with source enum A on a variant annotated `A, B` resolved the
\* pairing with A, met the undeclared B at the second annotation, and
\* returned the error alone
C16_Witness ==
    /\ From /\ pc = "emitted"
    /\ DeclaredEnums = {"A"}
    /\ Variants["V"].variant_annotations = <<EnumOnly("A"), EnumOnly("B")>>
    /\ error.msg = UnknownContainerMsg
    /\ error.span = VariantAttrSpan("V", 2)
    /\ output = Output(<<>>, error)
    /\ Mappings = {}

\* the pairings of the resolved tables: paired enum, paired variant and
\* annotated variant of every VariantMapping
TablePairings ==
    {[enum |-> m.enum, paired |-> m.paired_variant,
      annotated |-> m.mapping.annotated_variant] : m \in Mappings}

\* the variants without variant-level annotation
Unannotated == {v \in DOMAIN Variants : Variants[v].variant_annotations = <<>>}

\* C17: a variant that takes part in no pairing is absent from the resolved
\* table.  EnumInto with one target enum and no annotation resolves to
\* exactly one mapping per source variant, to the variant of the same name
\* and with no field override, so no mapping names another variant of the
\* target enum, and every arm routes field to same field.  EnumFrom gives a
\* target variant without variant-level annotation no mapping in any source
\* enum's table and no arm in any impl; with one source enum and bare
\* annotations the table holds the same-named pairing of the annotated
\* variants and nothing else.
C17_UnpairedVariantIsAbsent ==
    /\ (Into /\ OnePairedEnumListed /\ NoVariantAnnotations /\ NoFieldAnnotations) =>
        /\ pc \notin {"failed", "panicked"}
        /\ Resolved =>
            /\ TablePairings =
                    {[enum |-> parsed.container_annotations[1], paired |-> v,
                      annotated |-> v] : v \in DOMAIN Variants}
            /\ Cardinality(Mappings) = Cardinality(DOMAIN Variants)
            /\ \A m \in Mappings : m.mapping.fields_mapping = EmptyMap
        /\ pc = "emitted" =>
            /\ Cardinality(AllArms) = Cardinality(DOMAIN Variants)
            /\ \A arm \in AllArms :
                /\ arm.target_variant = arm.source_variant
                /\ Route(arm) = IdentityRoute(Variants[arm.source_variant].fields)
    /\ From =>
        /\ Resolved =>
            \A m \in Mappings :
                /\ m.mapping.annotated_variant \notin Unannotated
                /\ m.paired_variant \in Unannotated =>
                    \E v \in DOMAIN Variants \ Unannotated :
                        \E a \in Range(Variants[v].variant_annotations) :
                            a.kind = "EnumVariant" /\ a.variant_ident = m.paired_variant
        /\ Emitted => \A arm \in AllArms : arm.target_variant \notin Unannotated
        /\ (Resolved /\ OnePairedEnumListed /\ NothingButBare /\ NoFieldAnnotations) =>
            /\ TablePairings =
                    {[enum |-> parsed.container_annotations[1], paired |-> v,
                      annotated |-> v] : v \in DOMAIN Variants \ Unannotated}
            /\ \A m \in Mappings : m.mapping.fields_mapping = EmptyMap

\* EnumFrom on Target { Unit, Tuple, Struct, Extra } with a bare annotation
\* on all but Extra emitted one impl of three arms, none for Extra
C17_Witness ==
    /\ From /\ Emitted
    /\ DOMAIN Variants = {"Unit", "Tuple", "Struct", "Extra"}
    /\ Unannotated = {"Extra"}
    /\ Cardinality(Mappings) = 3
    /\ {arm.target_variant : arm \in AllArms} = {"Unit", "Tuple", "Struct"}
    /\ \A arm \in AllArms :
        Route(arm) = IdentityRoute(Variants[arm.target_variant].fields)


\* the variants of paired enum e that the variant-level annotations of v
\* name: `e::X` names X, a plain `e` names the variant of v's own name
NamedVariants(v, e) ==
    {IF a.kind = "EnumVariant" THEN a.variant_ident ELSE v :
        a \in {b \in Range(Variants[v].variant_annotations) :
                 b.kind # "Nothing" /\ b.enum_ident = e}}

\* C19: in the into direction a source variant whose variant-level
\* annotations name several different variants of one target enum has, once
\* resolved, one VariantMapping in that enum's table for every variant it
\* names: no explicitly named pairing is discarded.
C19_EveryNamedPairingKept ==
    (Into /\ Resolved) =>
        \A v \in DOMAIN Variants : \A e \in DeclaredEnums :
            Cardinality(NamedVariants(v, e)) > 1 =>
                \A x \in NamedVariants(v, e) :
                    \E m \in Mappings :
                        /\ m.enum = e
                        /\ m.paired_variant = x
                        /\ m.mapping.annotated_variant = v


(***************************************************************************)
(* The forms of an attribute, read off the declaration.                    *)
(***************************************************************************)
\* the attribute is one of the running derive
Own(attr) == attr.path = AttrName(derive_input.dir)

\* a list of at least one argument, no trailing comma, every path of an
\* accepted number of segments
WellFormedList(attr, lengths) ==
    /\ attr.meta = "List"
    /\ attr.args # <<>>
    /\ ~attr.trailing
    /\ \A j \in 1 .. Len(attr.args) : Len(attr.args[j].segments) \in lengths

CleanVariantAttr(attr) == attr.meta = "Path" \/ WellFormedList(attr, 1 .. 2)
CleanFieldAttr(attr) == WellFormedList(attr, 2 .. 2)

ContainerClean ==
    /\ derive_input.data = "Enum"
    /\ \A i \in 1 .. Len(derive_input.attrs) :
        Own(derive_input.attrs[i]) => WellFormedList(derive_input.attrs[i], 1 .. 1)

VariantLevelClean ==
    \A i \in 1 .. Len(derive_input.variant_attrs) :
        Own(derive_input.variant_attrs[i]) => CleanVariantAttr(derive_input.variant_attrs[i])

\* the keys of the fields in declaration order
DeclaredKeys ==
    [i \in 1 .. derive_input.fields.len |-> FieldKey(derive_input.fields, i - 1)]

\* every attribute of every field before place i of field number n (from 1)
\* is well formed
FieldsCleanUpTo(n, i) ==
    /\ \A m \in 1 .. n - 1 :
        \A j \in 1 .. Len(derive_input.field_attrs[DeclaredKeys[m]]) :
            Own(derive_input.field_attrs[DeclaredKeys[m]][j]) =>
                CleanFieldAttr(derive_input.field_attrs[DeclaredKeys[m]][j])
    /\ \A j \in 1 .. i - 1 :
            Own(derive_input.field_attrs[DeclaredKeys[n]][j]) =>
                CleanFieldAttr(derive_input.field_attrs[DeclaredKeys[n]][j])

FieldLevelClean ==
    \A k \in DOMAIN derive_input.field_attrs :
        \A j \in 1 .. Len(derive_input.field_attrs[k]) :
            Own(derive_input.field_attrs[k][j]) => CleanFieldAttr(derive_input.field_attrs[k][j])

\* the parser ran
ParseReturned == pc # "input"
ParseFailed == ParseReturned /\ parsed = NoParsed
\* the diagnostic is all the derive delivers
OnlyDiagnostic(e) ==
    /\ error = e
    /\ pc \in {"failed", "emitted"}
    /\ pc = "emitted" => output = Output(<<>>, e)

\* the places of the own bare markers at the variant level
BareVariantMarkers ==
    {i \in 1 .. Len(derive_input.variant_attrs) :
        Own(derive_input.variant_attrs[i]) /\ derive_input.variant_attrs[i].meta = "Path"}

CounterpartKeys(arm) == {r.target : r \in ExpectedRoute(arm)}

\* the paths pair the fields one to one with the fields of a tuple or of a
\* struct variant of as many fields
Invertible(arm) ==
    /\ OneToOne(arm)
    /\ \/ CounterpartKeys(arm) = FieldKeys(FieldsUnnamed(Cardinality(ExpectedRoute(arm))))
       \/ CounterpartKeys(arm) = FieldKeys(FieldsNamed(Cardinality(ExpectedRoute(arm))))

\* the declaration of the paired variant
CounterpartFields(arm) ==
    IF CounterpartKeys(arm) = FieldKeys(FieldsUnnamed(Cardinality(ExpectedRoute(arm))))
    THEN FieldsUnnamed(Cardinality(ExpectedRoute(arm)))
    ELSE FieldsNamed(Cardinality(ExpectedRoute(arm)))

\* the paired variant as EnumFrom on the target enum sees it: annotated
\* `Own::v`, and the counterpart t of every annotated field s of v
\* annotated `Own::v.s`
InverseVariant(arm) ==
    ParsedVariant(arm.target_variant, 0, CounterpartFields(arm),
        <<EnumVariant(OwnEnum, arm.source_variant)>>,
        [t \in FieldKeys(CounterpartFields(arm)) |->
            LET s == (CHOOSE r \in ExpectedRoute(arm) : r.target = t).source
            IN IF Variants[arm.source_variant].fields_annotations[s].fields_annotations = <<>>
               THEN <<>>
               ELSE <<Path(OwnEnum, arm.source_variant, s)>>])

\* EnumFrom's resolution of that declaration
InverseResolution(arm) ==
    from_variant_iteration(InverseVariant(arm), single_source_enum(<<OwnEnum>>),
                           [e \in {OwnEnum} |-> EmptyMap])

\* the arms EnumFrom emits for it
InverseArms(arm) ==
    IF InverseResolution(arm).errs # {} THEN {}
    ELSE UNION {UNION {Range(impl_blocks[i].match_arms) : i \in 1 .. Len(impl_blocks)} :
                impl_blocks \in from_generate(InverseResolution(arm).table,
                    [n \in {arm.target_variant} |-> InverseVariant(arm)])}

\* C18: round trip of the two directions.  When EnumInto on A pairs a
\* variant with a variant of B under field renames or reorderings and
\* EnumFrom on B declares the inverse renames or reorderings, EnumFrom
\* resolves too, the arms the two derives emit move the values alike, and
\* they deliver the value of every source field to the field declared as
\* its counterpart and to no other.
C18_RoundTripDeliversToCounterpart ==
    (Into /\ Emitted) =>
        \A arm \in AllArms :
            Invertible(arm) =>
                /\ InverseArms(arm) # {}
                /\ \A inverse \in InverseArms(arm) : Route(inverse) = Route(arm)
                /\ Route(arm) = ExpectedRoute(arm)

\* the two derives emit the same conversion, whether or not it is the
\* declared one
BothDirectionsAgree ==
    (Into /\ Emitted) =>
        \A arm \in AllArms :
            Invertible(arm) =>
                /\ InverseArms(arm) # {}
                /\ \A inverse \in InverseArms(arm) : Route(inverse) = Route(arm)


(***************************************************************************)
(* The container-level list.                                               *)
(***************************************************************************)
\* the places of the derive's own attributes on the enum
OwnContainerAttrs ==
    {i \in 1 .. Len(derive_input.attrs) : Own(derive_input.attrs[i])}

\* the enum carries no attribute of the derive
ContainerListAbsent == derive_input.data = "Enum" /\ OwnContainerAttrs = {}

\* the first attribute of the derive on the enum is `#[enum_from()]`
ContainerListEmpty ==
    /\ derive_input.data = "Enum"
    /\ OwnContainerAttrs # {}
    /\ LET first == CHOOSE i \in OwnContainerAttrs : \A j \in OwnContainerAttrs : i <= j
       IN /\ derive_input.attrs[first].meta = "List"
          /\ derive_input.attrs[first].args = <<>>

MissingAnnotationError ==
    Error(IF derive_input.dir = "from" THEN FromMissingAnnotationMsg
          ELSE IntoMissingAnnotationMsg, CallSite, NoIdent, NoIdent)

\* C21 as stated: an absent and an empty container-level list alike end
\* in MissingAnnotation at the call site.
C21_AbsentOrEmptyIsMissingAnnotation ==
    (ParseReturned /\ (ContainerListAbsent \/ ContainerListEmpty)
        /\ VariantLevelClean /\ FieldLevelClean /\ pc # "parsed") =>
        OnlyDiagnostic(MissingAnnotationError)

\* C21: a declaration without container-level attribute, whose variants
\* parse, fails resolution with MissingAnnotation at the call site, and the
\* derive delivers that diagnostic only.  An attribute with an empty
\* argument list does not get that far: the parser rejects it with the
\* container-level form error, attributed to the attribute.
C21_AbsentIsMissingEmptyIsFormError ==
    ParseReturned =>
        /\ (ContainerListAbsent /\ VariantLevelClean /\ FieldLevelClean) =>
            /\ ~ParseFailed
            /\ parsed.container_annotations = <<>>
            /\ pc # "parsed" => OnlyDiagnostic(MissingAnnotationError)
        /\ ContainerListEmpty =>
            /\ ParseFailed
            /\ OnlyDiagnostic(FormError(
                    IF derive_input.dir = "from" THEN FromContainerFormMsg
                    ELSE IntoContainerFormMsg,
                    AttrSpan(NoIdent, NoField,
                        CHOOSE i \in OwnContainerAttrs : \A j \in OwnContainerAttrs : i <= j)))
            /\ error.span # CallSite

\* EnumInto on an enum without `#[enum_into(..)]`, its variant carrying a
\* bare marker: the derive delivered MissingAnnotation at the call site
C21_Witness ==
    /\ derive_input.dir = "into"
    /\ derive_input.attrs = <<MetaPath("doc")>>
    /\ derive_input.variant_attrs = <<MetaPath("enum_into")>>
    /\ parsed # NoParsed
    /\ pc = "emitted"
    /\ output = Output(<<>>, Error(IntoMissingAnnotationMsg, CallSite, NoIdent, NoIdent))


(***************************************************************************)
(* Determinism.  A run is one way through the HashMap iterations; what a   *)
(* second run of the same declaration may deliver is what any order may    *)
(* deliver.                                                                *)
(***************************************************************************)
\* the outputs generate() may emit for the resolved tables
PossibleOutputs ==
    IF From THEN from_generate(source_enums, target_variants)
    ELSE into_generate(target_enums, source_variants)

\* the errors the first iteration of try_from's loop may return, whichever
\* variant the HashMap yields first
PossibleFirstErrors ==
    IF From
    THEN UNION {from_variant_iteration(Variants[v],
                    single_source_enum(parsed.container_annotations), source_enums).errs :
                v \in remaining}
    ELSE UNION {into_variant_iteration(Variants[v], order, target_enums).errs :
                v \in remaining, order \in Orders(DOMAIN target_enums)}

\* C22: determinism.  Resolving and emitting one declaration twice gives
\* the same result: the resolved tables admit one output only (one order of
\* impl blocks, one order of match arms), and an invalid declaration admits
\* one diagnostic only.
C22_OneResultPerDeclaration ==
    /\ (pc = "resolved" /\ error = NoError) => Cardinality(PossibleOutputs) <= 1
    /\ (pc = "resolving" /\ remaining = DOMAIN Variants) =>
            Cardinality(PossibleFirstErrors) <= 1


(***************************************************************************)
(* Which error is reported.                                                *)
(***************************************************************************)
\* the errors the iteration of try_from's loop for variant w returns when
\* w is the first variant visited
ErrorsOf(w) ==
    IF From
    THEN from_variant_iteration(Variants[w],
            single_source_enum(parsed.container_annotations),
            [e \in DeclaredEnums |-> EmptyMap]).errs
    ELSE UNION {into_variant_iteration(Variants[w], order,
                    [e \in DeclaredEnums |-> EmptyMap]).errs :
                order \in Orders(DeclaredEnums)}

\* C23: of several validation errors of a declaration, resolution reports
\* the one that comes first in source declaration order.  For errors in
\* different variants: when resolution failed at a variant, no variant
\* declared before it has an error of its own.
C23_FirstErrorInDeclarationOrder ==
    (pc = "failed" /\ error.span.variant \in DOMAIN Variants) =>
        \A w \in DOMAIN Variants :
            Variants[w].decl < Variants[error.span.variant].decl => ErrorsOf(w) = {}


\* the variant-level annotations, as (variant, place), that claim the
\* variant p of the paired enum e
Claimants(e, p) ==
    {c \in {<<v, i>> : v \in DOMAIN Variants, i \in 1 .. MaxVariantAnnots + 1} :
        /\ c[2] <= Len(Variants[c[1]].variant_annotations)
        /\ NamedPairing(c[1], Variants[c[1]].variant_annotations[c[2]]) =
                [enum |-> e, variant |-> p]}

\* C24: in the from direction every successfully resolved table has each
\* (source enum, source variant) pair claimed by at most one variant-level
\* annotation of the target enum, so that no accepted mapping is
\* overwritten by another one for the same source variant.
C24_SourceVariantClaimedOnce ==
    (From /\ Resolved) =>
        \A e \in DeclaredEnums : \A p \in VariantNames \cup {OtherVariant} :
            Cardinality(Claimants(e, p)) <= 1


(***************************************************************************)
(* Which fields a field table holds.                                       *)
(***************************************************************************)
\* the fields of the annotated variant of a mapping, as the table keys them
DeclaredRaw(m) == {Raw(k) : k \in FieldKeys(Variants[m.mapping.annotated_variant].fields)}

CrossShapeKinds == {"StructToTuple", "TupleToStruct"}
SameShapeKinds == {"TupleToTuple", "StructToStruct"}

ImplBlocks == Range(output.impl_blocks)

\* the paired enum of an impl block: the source of EnumFrom's
\* `impl From<Source> for Own`, the target of EnumInto's
ImplPairedEnum(impl) == IF From THEN impl.source_enum ELSE impl.target_enum

\* the pairing an arm converts, and the pairing a mapping stands for
ArmPairing(arm) ==
    [enum |-> PairedEnum(arm), paired |-> PairedVariant(arm),
     annotated |-> AnnotatedVariant(arm)]

\* C26: emission builds exactly one `impl From` per distinct paired enum of
\* the container-level list.  The impl of a paired enum has exactly one
\* match arm per VariantMapping of that enum's table, each for the pairing
\* of its mapping, and no other arm, so a variant without mapping to the
\* enum contributes no arm to it; a paired enum without any mapping gets
\* its impl all the same, with an empty match.
C26_OneImplPerEnumOneArmPerMapping ==
    Emitted =>
        /\ Len(output.impl_blocks) = Cardinality(DeclaredEnums)
        /\ {ImplPairedEnum(impl) : impl \in ImplBlocks} = DeclaredEnums
        /\ \A impl \in ImplBlocks :
            /\ IF From THEN impl.target_enum = OwnEnum ELSE impl.source_enum = OwnEnum
            /\ Len(impl.match_arms)
                    = Cardinality({m \in Mappings : m.enum = ImplPairedEnum(impl)})
            /\ {ArmPairing(arm) : arm \in Range(impl.match_arms)}
                    = {p \in TablePairings : p.enum = ImplPairedEnum(impl)}
            /\ \A arm \in Range(impl.match_arms) :
                /\ arm.source_variant # NoIdent
                /\ arm.target_variant # NoIdent
            /\ {m \in Mappings : m.enum = ImplPairedEnum(impl)} = {} =>
                    impl.match_arms = <<>>

\* EnumFrom with two source enums, a variant paired with one of them only:
\* two impl blocks, one of one arm and one with an empty match
C26_Witness ==
    /\ From /\ Emitted
    /\ Cardinality(DeclaredEnums) = 2
    /\ Len(output.impl_blocks) = 2
    /\ \E impl \in ImplBlocks : impl.match_arms = <<>>
    /\ \E impl \in ImplBlocks : Len(impl.match_arms) = 1


\* C27: resolution and emission never reach one of their panic or expect
\* sites.  compute_variant_mapping never panics on a unit variant with
\* field annotations or on a field key of the wrong kind, and generate()
\* finds every mapping's variant in the variant table, a mapping kind that
\* fits the variant's shape, and an entry for every position it looks up
\* in a cross-shape field table: every resolved table is emitted.
C27_NoPanicSiteReached ==
    /\ pc # "panicked"
    /\ (pc = "resolved" /\ error = NoError) => PossibleOutputs # {}
    /\ Resolved =>
        \A m \in Mappings :
            /\ m.mapping.annotated_variant \in
                    DOMAIN (IF From THEN target_variants ELSE source_variants)
            /\ m.mapping.kind =
                CASE Variants[m.mapping.annotated_variant].fields.kind = "Unit" ->
                        "UnitToUnit"
                  [] Variants[m.mapping.annotated_variant].fields.kind = "Unnamed" ->
                        IF m.mapping.kind \in CrossShapeKinds
                        THEN (IF From THEN "StructToTuple" ELSE "TupleToStruct")
                        ELSE "TupleToTuple"
                  [] Variants[m.mapping.annotated_variant].fields.kind = "Named" ->
                        IF m.mapping.kind \in CrossShapeKinds
                        THEN (IF From THEN "TupleToStruct" ELSE "StructToTuple")
                        ELSE "StructToStruct"

\* a cross-shape mapping of a tuple variant, whose arm looks every position
\* up in the field table, was emitted
C27_Witness ==
    /\ Emitted
    /\ \E m \in Mappings :
        /\ m.mapping.kind \in CrossShapeKinds
        /\ Variants[m.mapping.annotated_variant].fields.kind = "Unnamed"
        /\ Variants[m.mapping.annotated_variant].fields.len >= 2
    /\ AllArms # {}


(***************************************************************************)
(* C28: extract_fields_annotations takes the annotations of one pairing    *)
(* out of the pool.                                                        *)
(***************************************************************************)
\* the pairings a field-level annotation can be scoped to
PoolPairings == Enums \X (VariantNames \cup {OtherVariant})

\* how many annotations of the list are for the pairing (e, p)
CountFor(annotations, e, p) ==
    Cardinality({i \in 1 .. Len(annotations) : Matches(annotations[i], e, p)})

\* the pool of variant v after the annotations of the pairing q are collected
PoolAfter(v, q) ==
    extract_fields_annotations(Variants[v].fields_annotations, q[1], q[2]).rest

\* collecting the pairing q from the pool of variant v leaves the field k with
\* its span, without any annotation for q, and with the annotations for every
\* other pairing as many as before; a field with no annotation for q is left
\* as it was
FrameOf(v, q, k) ==
    LET before == Variants[v].fields_annotations[k]
        after == PoolAfter(v, q)[k]
    IN /\ after.field_span = before.field_span
       /\ Range(after.fields_annotations) \subseteq Range(before.fields_annotations)
       /\ \A r \in PoolPairings :
            CountFor(after.fields_annotations, r[1], r[2]) =
                IF r = q THEN 0 ELSE CountFor(before.fields_annotations, r[1], r[2])
       /\ CountFor(before.fields_annotations, q[1], q[2]) = 0 => after = before

\* C28: collecting the field annotations of a pairing removes from the pool
\* exactly the annotations scoped to that pairing: the pool keeps its fields,
\* every field keeps its annotations for the other pairings, and what is
\* collected for a field is an annotation of that field for the pairing.
\* Collecting another pairing afterwards yields what collecting it first
\* would have yielded, so a field annotated for several pairings gives each
\* pairing its own annotation.  After a successful resolution every
\* field-level annotation is scoped to a pairing its variant is resolved
\* with, and no field has two annotations for one pairing.
C28_ExtractionTakesOwnPairingOnly ==
    /\ \A v \in DOMAIN Variants : \A q \in PoolPairings :
            LET pool == Variants[v].fields_annotations
                x == extract_fields_annotations(pool, q[1], q[2])
            IN /\ DOMAIN x.rest = DOMAIN pool
               /\ \A k \in DOMAIN pool : FrameOf(v, q, k)
               /\ \A k \in DOMAIN x.annotations :
                    /\ k \in DOMAIN pool
                    /\ Matches(x.annotations[k], q[1], q[2])
                    /\ x.annotations[k] \in Range(pool[k].fields_annotations)
               /\ \A r \in PoolPairings \ {q} :
                    extract_fields_annotations(x.rest, r[1], r[2]).annotations =
                        extract_fields_annotations(pool, r[1], r[2]).annotations
    /\ Resolved =>
        /\ UnusedFieldAnnotations = {}
        /\ \A v \in DOMAIN Variants : \A k \in DOMAIN Variants[v].fields_annotations :
            \A q \in PoolPairings :
                CountFor(Variants[v].fields_annotations[k].fields_annotations,
                         q[1], q[2]) <= 1

\* EnumFrom resolved a variant paired with A::V and with A::O whose one field
\* carries an annotation for each of the two pairings; each of the two
\* mappings routes the field as its own annotation says
C28_Witness ==
    /\ Resolved /\ From
    /\ \E v \in DOMAIN Variants : \E k \in DOMAIN Variants[v].fields_annotations :
        /\ CountFor(Variants[v].fields_annotations[k].fields_annotations, "A", "V") = 1
        /\ CountFor(Variants[v].fields_annotations[k].fields_annotations,
                    "A", OtherVariant) = 1
        /\ \A p \in {"V", OtherVariant} :
            \E m \in Mappings :
                /\ m.enum = "A" /\ m.paired_variant = p
                /\ m.mapping.annotated_variant = v
                /\ Raw(k) \in DOMAIN m.mapping.fields_mapping
                /\ m.mapping.fields_mapping[Raw(k)] = Raw(Counterpart(v, "A", p, k))


(***************************************************************************)
(* C29: the field table of a same-shape pairing, unannotated fields        *)
(* defaulting to the identity.                                             *)
(***************************************************************************)
\* the field table of the mapping m with every declared field it lacks
\* mapped to itself, as generate_match_arm's `unwrap_or` reads it
FilledTable(m) ==
    [k \in DeclaredRaw(m) |->
        IF k \in DOMAIN m.mapping.fields_mapping THEN m.mapping.fields_mapping[k] ELSE k]

\* no slot of the paired variant is used by two fields of the annotated one
Injective(table) ==
    \A j, k \in DOMAIN table : table[j] = table[k] => j = k

\* C29: every field table that resolution accepts for a tuple-to-tuple or a
\* struct-to-struct pairing is, with the unannotated fields mapped to
\* themselves, one to one: no slot of the paired variant is used by two
\* fields of the annotated variant, also when only some of the fields are
\* annotated.
C29_SameShapeTableIsOneToOne ==
    Resolved =>
        \A m \in Mappings :
            m.mapping.kind \in SameShapeKinds => Injective(FilledTable(m))


(***************************************************************************)
(* C30: a variant whose annotation list names one pairing twice.           *)
(***************************************************************************)
\* the variant-level annotations of variant v name the pairing (e, p) at
\* least twice
NamedTwice(v, e, p) ==
    LET va == Variants[v].variant_annotations
    IN Cardinality({i \in 1 .. Len(va) :
            NamedPairing(v, va[i]) = [enum |-> e, variant |-> p]}) >= 2

\* the routing the field-level annotations of variant v for the pairing
\* (e, p) ask for, unannotated fields mapped to themselves
AnnotatedTable(v, e, p) ==
    [r \in {Raw(k) : k \in FieldKeys(Variants[v].fields)} |->
        Raw(Counterpart(v, e, p, CHOOSE k \in FieldKeys(Variants[v].fields) : Raw(k) = r))]

\* C30: naming a pairing twice in a variant's annotation list changes
\* nothing: when resolution succeeds, the mapping stored for the pairing
\* routes every field as the field-level annotations scoped to the pairing
\* say, as it does when the pairing is named once; the repetition never
\* replaces the annotated field table by a default one.
C30_RepeatedPairingKeepsFieldTable ==
    Resolved =>
        \A m \in Mappings :
            NamedTwice(m.mapping.annotated_variant, m.enum, m.paired_variant) =>
                FilledTable(m) =
                    AnnotatedTable(m.mapping.annotated_variant, m.enum, m.paired_variant)

=============================================================================
